---- MODULE Spec2Model ----
(***************************************************************************)
(* Verification model of the JSteg tool in src/backend/jpeg.py with its    *)
(* bit reader (reader.py) and bit writer (writer.py).                      *)
(*                                                                         *)
(* Python lists are modelled as TLA+ sequences; a Python index i is the    *)
(* TLA+ index i + 1.  Integers are unbounded as in Python; the places      *)
(* where the code narrows a value (numpy uint8 / int8 / int32 values,      *)
(* "& 0xFF") are modelled with explicit modular arithmetic.                *)
(***************************************************************************)
EXTENDS Integers, Sequences, FiniteSets, TLC

\* jpg        the two JPG objects: "cover" (the embedding run) and "stego"
\*            (the retrieving run, constructed from the written file)
\* frame      the frame the last injectFile built (its local file_bytes)
\* stegoFile  the bytes saveJPGData wrote, <<>> while nothing was written
\* loaded     the bytes the "stego" object was constructed from
\* outFile    the file retrieveHiddenFile wrote
\* err        the message of the exception that ended the run, "" if none
\* hist       the calls made so far, in order
\* before     the two objects as they were when the last call began
\* unit       the argument and the result of the function applied last, in
\*            the runs that apply one function to inputs of their own
VARIABLES jpg, frame, stegoFile, loaded, outFile, err, hist, before, unit

vars ==
    <<jpg, frame, stegoFile, loaded, outFile, err, hist, before, unit>>

(***************************************************************************)
(* Small helpers for Python list and integer operations.                   *)
(***************************************************************************)
At(s, i) ==
    s[i + 1]

Pow2(n) ==
    2 ^ n

Repeat(x, n) ==
    [k \in 1..n |-> x]

Slice(s, from, to) ==
    IF to <= from THEN <<>> ELSE SubSeq(s, from + 1, to)

Min(a, b) ==
    IF a < b THEN a ELSE b

(***************************************************************************)
(* Python loops.  A loop body is an operator from the loop's variables (a  *)
(* record) to their values after one pass; a record with a non-empty err   *)
(* field stands for a raised exception, which ends every loop around it.   *)
(***************************************************************************)
\* up to 2^k passes of a while loop
RECURSIVE Passes(_, _, _, _)
Passes(Stops(_), Step(_), s, k) ==
    IF Stops(s) THEN s
    ELSE IF k = 0 THEN Step(s)
    ELSE Passes(Stops, Step, Passes(Stops, Step, s, k - 1), k - 1)

RECURSIVE Loop(_, _, _, _)
Loop(Stops(_), Step(_), s, k) ==
    IF Stops(s) THEN s
    ELSE Loop(Stops, Step, Passes(Stops, Step, s, k), k + 1)

\* "while not Stops: Step": the passes are made in order until Stops holds
While(Stops(_), Step(_), s) ==
    Loop(Stops, Step, s, 0)

\* "name = v": v is computed once, and In reads it under the name of its
\* parameter
Bind(v, In(_)) ==
    In(v)

\* "for i in range(lo, hi + 1): Step": the passes lo..hi in order, the first
\* half of the range before the second
RECURSIVE For(_, _, _, _)
For(Step(_, _), s, lo, hi) ==
    IF lo > hi \/ s.err # "" THEN s
    ELSE IF lo = hi THEN Step(s, lo)
    ELSE For(Step, For(Step, s, lo, lo + (hi - lo) \div 2),
             lo + (hi - lo) \div 2 + 1, hi)

(***************************************************************************)
(* reader.py: BitReader.  The reader is the record                         *)
(* [data_, currByte_, currBit_, read_].                                    *)
(***************************************************************************)
BitReader(data) ==
    [data_ |-> data, currByte_ |-> 0, currBit_ |-> 0, read_ |-> FALSE]

\* one pass of the loop of readNextBit; s is the record [result, reader, err]
readNextBitStep(s) ==
    LET r        == s.reader
        currByte == At(r.data_, r.currByte_) \div Pow2(7 - r.currBit_)
        nbit     == (r.currBit_ + 1) % 8
        nbyte    == IF nbit = 0 THEN r.currByte_ + 1 ELSE r.currByte_
    IN IF s.err # "" \/ r.read_ THEN s
       ELSE IF r.currByte_ >= Len(r.data_) THEN [s EXCEPT !.err = "IndexError"]
       ELSE [result |-> s.result * 2 + (currByte % 2),
             reader |-> [r EXCEPT !.currBit_ = nbit,
                                  !.currByte_ = nbyte,
                                  !.read_ = (nbyte >= Len(r.data_))],
             err |-> ""]

readNextBit(r, n) ==
    For(LAMBDA s, i : readNextBitStep(s),
        [result |-> 0, reader |-> r, err |-> ""], 1, n)

(***************************************************************************)
(* Huffman tables.                                                         *)
(***************************************************************************)
HuffmanTable ==
    [symbols |-> Repeat(0, 162), offsets |-> Repeat(0, 17),
     codes |-> Repeat(0, 162), set |-> FALSE, table_length |-> 0,
     destination_id |-> 0, table_type |-> 0, numberOfCodes |-> 0]

\* the value of `code` when the pass for `offset` begins: every code written
\* adds 1, every pass ends with a shift left
RECURSIVE firstCode(_, _)
firstCode(offsets, offset) ==
    IF offset = 0 THEN 0
    ELSE LET lo == At(offsets, offset - 1)
             hi == At(offsets, offset)
         IN (firstCode(offsets, offset - 1) + (IF hi > lo THEN hi - lo ELSE 0))
            * 2

\* codes[i] is written by the last pass whose range offsets[offset] ..
\* offsets[offset+1]-1 holds i, and is left alone when no range holds it
generateHuffmanCodes(huffmanTable) ==
    LET offsets == huffmanTable.offsets
        first   == [o \in 1..16 |-> firstCode(offsets, o - 1)]
        passes(i) == {o \in 0..15 :
                         At(offsets, o) <= i /\ i < At(offsets, o + 1)}
        last(i) == CHOOSE o \in passes(i) : \A o2 \in passes(i) : o2 <= o
    IN [huffmanTable EXCEPT
           !.codes = [k \in 1..Len(@) |->
                         IF passes(k - 1) = {} THEN @[k]
                         ELSE first[last(k - 1) + 1]
                              + (k - 1 - At(offsets, last(k - 1)))]]

dcSymbols ==
    << 0, 1, 2, 3, 4, 5, 6, 7, 8, 9, 10, 11 >>

acLuminanceSymbols ==
    <<
       1, 2, 3, 0, 4, 17, 5, 18, 33, 49, 65, 6, 19, 81, 97, 7, 34, 113,
       20, 50, 129, 145, 161, 8, 35, 66, 177, 193, 21, 82, 209, 240, 36, 51, 98, 114,
       130, 9, 10, 22, 23, 24, 25, 26, 37, 38, 39, 40, 41, 42, 52, 53, 54, 55,
       56, 57, 58, 67, 68, 69, 70, 71, 72, 73, 74, 83, 84, 85, 86, 87, 88, 89,
       90, 99, 100, 101, 102, 103, 104, 105, 106, 115, 116, 117, 118, 119, 120, 121, 122, 131,
       132, 133, 134, 135, 136, 137, 138, 146, 147, 148, 149, 150, 151, 152, 153, 154, 162, 163,
       164, 165, 166, 167, 168, 169, 170, 178, 179, 180, 181, 182, 183, 184, 185, 186, 194, 195,
       196, 197, 198, 199, 200, 201, 202, 210, 211, 212, 213, 214, 215, 216, 217, 218, 225, 226,
       227, 228, 229, 230, 231, 232, 233, 234, 241, 242, 243, 244, 245, 246, 247, 248, 249, 250
    >>

acChrominanceSymbols ==
    <<
       0, 1, 2, 3, 17, 4, 5, 33, 49, 6, 18, 65, 81, 7, 97, 113, 19, 34,
       50, 129, 8, 20, 66, 145, 161, 177, 193, 9, 35, 51, 82, 240, 21, 98, 114, 209,
       10, 22, 36, 52, 225, 37, 241, 23, 24, 25, 26, 38, 39, 40, 41, 42, 53, 54,
       55, 56, 57, 58, 67, 68, 69, 70, 71, 72, 73, 74, 83, 84, 85, 86, 87, 88,
       89, 90, 99, 100, 101, 102, 103, 104, 105, 106, 115, 116, 117, 118, 119, 120, 121, 122,
       130, 131, 132, 133, 134, 135, 136, 137, 138, 146, 147, 148, 149, 150, 151, 152, 153, 154,
       162, 163, 164, 165, 166, 167, 168, 169, 170, 178, 179, 180, 181, 182, 183, 184, 185, 186,
       194, 195, 196, 197, 198, 199, 200, 201, 202, 210, 211, 212, 213, 214, 215, 216, 217, 218,
       226, 227, 228, 229, 230, 231, 232, 233, 234, 242, 243, 244, 245, 246, 247, 248, 249, 250
    >>

dcLuminanceOffsets ==
    << 0, 0, 1, 6, 7, 8, 9, 10, 11, 12, 12, 12, 12, 12, 12, 12, 12 >>

dcChrominanceOffsets ==
    << 0, 0, 3, 4, 5, 6, 7, 8, 9, 10, 11, 12, 12, 12, 12, 12, 12 >>

acLuminanceOffsets ==
    << 0, 0, 2, 3, 6, 9, 11, 15, 18, 23, 28, 32, 36, 36, 36, 37, 162 >>

acChrominanceOffsets ==
    << 0, 0, 2, 3, 5, 9, 13, 16, 20, 27, 32, 36, 40, 40, 41, 43, 162 >>

\* type is "dc" or "ac", component is "lum" or "chr"
optimizeHuffmanTable(huffman_table, type, component) ==
    LET syms == IF type = "dc"
                THEN dcSymbols \o SubSeq(huffman_table.symbols, 13, 162)
                ELSE IF component = "lum" THEN acLuminanceSymbols
                ELSE acChrominanceSymbols
        offs == IF type = "dc"
                THEN (IF component = "lum" THEN dcLuminanceOffsets
                      ELSE dcChrominanceOffsets)
                ELSE (IF component = "lum" THEN acLuminanceOffsets
                      ELSE acChrominanceOffsets)
    IN generateHuffmanCodes([huffman_table EXCEPT !.symbols = syms,
                                                  !.offsets = offs])

(***************************************************************************)
(* Data model: Channel, MinimumCodedUnit, Header, JPG (jpeg.py 87-160,     *)
(* 783-793).                                                               *)
(***************************************************************************)
Channel ==
    [dcCoeff |-> 0, acCoeff |-> Repeat(0, 63)]

MinimumCodedUnit ==
    [luminance |-> Repeat(Channel, 4), chrominance |-> Repeat(Channel, 2)]

Component ==
    [identifier |-> 0, quantizationTableNumber |-> 0, acHuffmanTableId |-> 0,
     dcHuffmanTableId |-> 0, verticalSamplingFactor |-> 0,
     horizontalSamplingFactor |-> 0, used |-> FALSE]

StartOfFrame ==
    [precision |-> 0, height |-> 0, width |-> 0, numOfComponents |-> 0,
     set |-> FALSE]

Header ==
    [startOfFrame |-> StartOfFrame,
     startOfScan |-> [set |-> FALSE],
     components |-> Repeat(Component, 3),
     dcHuffmanTables |-> Repeat(HuffmanTable, 2),
     acHuffmanTables |-> Repeat(HuffmanTable, 2),
     bitstreamIndex |-> 0,
     restartInterval |-> 0,
     quantizationTables |-> <<>>,
     quantizationTablesData |-> <<>>,
     app0Marker |-> <<>>,
     zeroBased |-> FALSE,
     startOfSelection |-> 0,
     endOfSeleciton |-> 0,
     successiveApproxHigh |-> 0,
     successiveApproxLow |-> 0]

\* the fields JPG.__init__ sets before it reads the file
NewJPG ==
    [header |-> Header, MCUVector |-> <<>>, currMCU |-> 0,
     ChannelNumber |-> 0, ChannelType |-> TRUE, Coefficient |-> 0,
     Bits |-> 0]

\* an object that has not been constructed
NoJPG ==
    [header |-> Header, MCUVector |-> <<>>, currMCU |-> -1,
     ChannelNumber |-> 0, ChannelType |-> TRUE, Coefficient |-> 0,
     Bits |-> 0]

luminanceBlocks(header) ==
    At(header.components, 0).horizontalSamplingFactor
        * At(header.components, 0).verticalSamplingFactor

channelOf(j, mcu, ch, channel) ==
    IF ch THEN At(At(j.MCUVector, mcu).luminance, channel)
    ELSE At(At(j.MCUVector, mcu).chrominance, channel)

(***************************************************************************)
(* Coefficient walker (jpeg.py 1019-1110).                                 *)
(***************************************************************************)
OutOfRange ==
    "Index of coefficient read is out of range."

\* a cursor that goes through the luminance channels only
advanceCursorLuminanceOnly(j) ==
    LET c2 == (j.Coefficient + 1) % 63
        n2 == IF c2 # 0 THEN j.ChannelNumber
              ELSE (j.ChannelNumber + 1) % luminanceBlocks(j.header)
        m2 == IF c2 = 0 /\ n2 = 0 THEN j.currMCU + 1 ELSE j.currMCU
    IN [j EXCEPT !.Coefficient = c2, !.ChannelNumber = n2, !.currMCU = m2]

\* the cursor update shared, line for line, by findCoeff (1089-1108) and
\* findCoeffExtract (1040-1054)
advanceCursor(j) ==
    LET c2   == (j.Coefficient + 1) % 63
        lum  == luminanceBlocks(j.header)
        n2   == IF c2 # 0 THEN j.ChannelNumber
                ELSE IF j.ChannelType THEN (j.ChannelNumber + 1) % lum
                ELSE (j.ChannelNumber + 1) % 2
        t2   == IF c2 # 0 THEN j.ChannelType
                ELSE IF n2 = 0 THEN ~j.ChannelType
                ELSE j.ChannelType
        m2   == IF c2 = 0 /\ n2 = 0 /\ t2 THEN j.currMCU + 1 ELSE j.currMCU
    IN [j EXCEPT !.Coefficient = c2, !.ChannelNumber = n2,
                 !.ChannelType = t2, !.currMCU = m2]

findCoeff(j) ==
    IF j.currMCU >= Len(j.MCUVector)
    THEN [err |-> OutOfRange, jpg |-> j,
          tup |-> [idx |-> 0, val |-> 0, ch |-> TRUE, channel |-> 0, mcu |-> 0]]
    ELSE [err |-> "", jpg |-> advanceCursor(j),
          tup |-> [idx |-> j.Coefficient,
                   val |-> At(channelOf(j, j.currMCU, j.ChannelType,
                                        j.ChannelNumber).acCoeff,
                              j.Coefficient),
                   ch |-> j.ChannelType,
                   channel |-> j.ChannelNumber,
                   mcu |-> j.currMCU]]

\* a walker that skips zeros only
skippedZeroOnly(val) ==
    val = 0

\* a walk that takes coefficients of magnitude 2 and more only
skippedBelowTwo(val) ==
    val \in {-1, 0, 1}

\* the JSteg rule of findAvailableCoeff and findAvailableCoeffExtract
skipped(val) ==
    val = 0 \/ val = 1

\* "while tup[1] == 0 or tup[1] == 1: tup = self.findCoeff()"
findAvailableCoeff(j) ==
    While(LAMBDA r : r.err # "" \/ ~skipped(r.tup.val),
          LAMBDA r : findCoeff(r.jpg),
          findCoeff(j))

findCoeffExtract(j) ==
    IF j.currMCU >= Len(j.MCUVector)
    THEN [err |-> OutOfRange, jpg |-> j, coeff_value |-> 0]
    ELSE [err |-> "", jpg |-> advanceCursor(j),
          coeff_value |-> At(channelOf(j, j.currMCU, j.ChannelType,
                                       j.ChannelNumber).acCoeff,
                             j.Coefficient)]

findAvailableCoeffExtract(j) ==
    While(LAMBDA r : r.err # "" \/ ~skipped(r.coeff_value),
          LAMBDA r : findCoeffExtract(r.jpg),
          findCoeffExtract(j))

(***************************************************************************)
(* Payload frame (jpeg.py 1312-1340, 1454-1471).  A file name is a         *)
(* sequence of character codes, file data a sequence of bytes.             *)
(***************************************************************************)
Slash ==
    47

\* the last index i <= from with s[i] = '/', -1 when there is none (the scan
\* "for i in range(len(filedata)-1, -1, -1)" and the rule of basename)
lastSlash(s, from) ==
    LET hits == {i \in 0..from : At(s, i) = Slash}
    IN IF hits = {} THEN -1
       ELSE CHOOSE i \in hits : \A i2 \in hits : i2 <= i

\* os.path.basename
basename(filename) ==
    Slice(filename, lastSlash(filename, Len(filename) - 1) + 1, Len(filename))

\* the bytes of the length taken from the most significant down
lengthByteReversed(datasize, i) ==
    (datasize \div Pow2(8 * (3 - i))) % 256

\* one pass of "filedata.insert(0, (datasize >> (8*i)) & 0xFF)"
lengthByte(datasize, i) ==
    (datasize \div Pow2(8 * i)) % 256

RECURSIVE insertLength(_, _, _)
insertLength(filedata, datasize, i) ==
    IF i = 4 THEN filedata
    ELSE insertLength(<<lengthByte(datasize, i)>> \o filedata, datasize, i + 1)

\* a length that counts the four bytes of the prefix too
prepFileCountingPrefix(filedata, filename) ==
    LET named == filedata \o <<47>> \o basename(filename)
    IN insertLength(named, Len(named) + 4, 0)

\* lines 1322-1340: the separator and the basename are appended, then the
\* four bytes of the length are inserted at the front one by one
prepFileToInject(filedata, filename) ==
    LET named == filedata \o <<Slash>> \o basename(filename)
    IN insertLength(named, Len(named), 0)

CouldNotRemove ==
    "Error - Could not remove the file name."

removeNameFromFileData(filedata) ==
    LET found == lastSlash(filedata, Len(filedata) - 1)
        idx   == IF found < 0 THEN 0 ELSE found
    IN IF idx = 0
       THEN [err |-> CouldNotRemove, file |-> <<>>, filedata |-> filedata]
       ELSE [err |-> "",
             file |-> Slice(filedata, idx + 1, Len(filedata)),
             filedata |-> Slice(filedata, 0, idx)]

(***************************************************************************)
(* JSteg embedding (jpeg.py 1208-1246).                                    *)
(***************************************************************************)
CannotBeInjected ==
    "cannot be injected."

\* bit 0 of the magnitude is set or cleared and the sign put back
lsbOfMagnitude(coefficient_value, bit) ==
    LET magnitude == IF coefficient_value < 0 THEN -coefficient_value
                     ELSE coefficient_value
        masked    == magnitude - (magnitude % 2) + (IF bit # 0 THEN 1 ELSE 0)
    IN IF coefficient_value < 0 THEN -masked ELSE masked

\* lines 1227-1241: cast to numpy uint8, set or clear bit 0, cast to int8
lsbSteganography(coefficient_value, bit) ==
    LET unsigned == coefficient_value % 256
        masked   == IF bit # 0 THEN unsigned - (unsigned % 2) + 1
                    ELSE unsigned - (unsigned % 2)
    IN IF masked >= 128 THEN masked - 256 ELSE masked

\* the index taken as one into the 64 coefficients of a block, DC first
storeCoeffDcFirst(j, tup, value) ==
    LET block == IF tup.ch THEN "luminance" ELSE "chrominance"
    IN IF tup.idx = 0
       THEN [j EXCEPT !.MCUVector[tup.mcu + 1][block][tup.channel + 1]
                           .dcCoeff = value]
       ELSE [j EXCEPT !.MCUVector[tup.mcu + 1][block][tup.channel + 1]
                           .acCoeff[tup.idx] = value]

\* lines 1243-1246
storeCoeff(j, tup, value) ==
    IF tup.ch
    THEN [j EXCEPT !.MCUVector[tup.mcu + 1].luminance[tup.channel + 1]
                        .acCoeff[tup.idx + 1] = value]
    ELSE [j EXCEPT !.MCUVector[tup.mcu + 1].chrominance[tup.channel + 1]
                        .acCoeff[tup.idx + 1] = value]

\* the bytes of the frame compared with the capacity in bits
exceedsCapacityInBytes(file_bytes, Bits) ==
    Len(file_bytes) > Bits

\* line 1217
exceedsCapacity(file_bytes, Bits) ==
    Len(file_bytes) * 8 > Bits

\* the body of "for i in range(len(file_bytes) * 8)"; s is the record
\* [err, jpg, reader]
injectBit(s) ==
    Bind(findAvailableCoeff(s.jpg), LAMBDA r :
    Bind(readNextBit(s.reader, 1), LAMBDA b :
       IF s.err # "" THEN s
       ELSE IF r.err # "" THEN [err |-> r.err, jpg |-> r.jpg, reader |-> s.reader]
       ELSE [err |-> "",
             jpg |-> storeCoeff(r.jpg, r.tup,
                                lsbSteganography(r.tup.val, b.result)),
             reader |-> b.reader]))

injectFile(j, filename, file_data) ==
    Bind(prepFileToInject(file_data, filename), LAMBDA file_bytes :
       IF exceedsCapacity(file_bytes, j.Bits)
       THEN [err |-> CannotBeInjected, jpg |-> j, file_bytes |-> file_bytes]
       ELSE Bind(For(LAMBDA s, i : injectBit(s),
                     [err |-> "", jpg |-> j,
                      reader |-> BitReader(file_bytes)],
                     0, Len(file_bytes) * 8 - 1), LAMBDA r :
               [err |-> r.err, jpg |-> r.jpg, file_bytes |-> file_bytes]))

(***************************************************************************)
(* JSteg extraction (jpeg.py 1133-1164, 1248-1252).                        *)
(***************************************************************************)
\* "np.array(v).astype(uint32) & 0x01": bit 0 of the two's complement value
lsb(coefficient_value) ==
    coefficient_value % 2

\* "x << 1" on a 32-bit signed integer: the result is the low 32 bits of 2x
shl32(x) ==
    IF (x \div Pow2(30)) % 2 = 1
    THEN 2 * ((x % Pow2(30)) - Pow2(30))
    ELSE 2 * (x % Pow2(30))

\* one pass of the first loop of extractFromJPG; s is the record
\* [err, jpg, size_of_secret_file, _byte, secretData]
extractSizeBit(s) ==
    Bind(findAvailableCoeffExtract(s.jpg), LAMBDA r :
       IF s.err # "" THEN s
       ELSE IF r.err # "" THEN [s EXCEPT !.err = r.err, !.jpg = r.jpg]
       ELSE [s EXCEPT !.jpg = r.jpg,
                      !.size_of_secret_file = shl32(@) + lsb(r.coeff_value)])

\* pass i of the second loop: every 8th pass appends _byte and clears it
extractDataBit(s, i) ==
    Bind(findAvailableCoeffExtract(s.jpg), LAMBDA r :
    Bind(s._byte * 2 + lsb(r.coeff_value), LAMBDA b :
       IF s.err # "" THEN s
       ELSE IF r.err # "" THEN [s EXCEPT !.err = r.err, !.jpg = r.jpg]
       ELSE IF i % 8 = 0
       THEN [s EXCEPT !.jpg = r.jpg, !._byte = 0, !.secretData = Append(@, b)]
       ELSE [s EXCEPT !.jpg = r.jpg, !._byte = b]))

\* the coefficients one walk over the image yields; a pass of the second loop
\* takes one at least, so more passes than these end in OutOfRange
walkLength(j) ==
    63 * (luminanceBlocks(j.header) + 2) * Len(j.MCUVector)

\* "for i in range(32)" and "for i in range(1, size * 8 + 1)"; size * 8 is
\* computed in 32 bits like size
extractFromJPG(j) ==
    Bind(For(LAMBDA t, i : extractSizeBit(t),
             [err |-> "", jpg |-> j, size_of_secret_file |-> 0,
              _byte |-> 0, secretData |-> <<>>],
             0, 31), LAMBDA s :
    Bind(shl32(shl32(shl32(s.size_of_secret_file))), LAMBDA passes :
       For(extractDataBit, s, 1, Min(passes, walkLength(j) + 1))))

NoFile ==
    [name |-> <<>>, data |-> <<>>, written |-> FALSE]

retrieveHiddenFile(j) ==
    Bind(extractFromJPG(j), LAMBDA e :
    Bind(removeNameFromFileData(e.secretData), LAMBDA n :
       IF e.err # "" THEN [err |-> e.err, jpg |-> e.jpg, file |-> NoFile]
       ELSE IF n.err # "" THEN [err |-> n.err, jpg |-> e.jpg, file |-> NoFile]
       ELSE [err |-> "", jpg |-> e.jpg,
             file |-> [name |-> n.file, data |-> n.filedata,
                       written |-> TRUE]]))

(***************************************************************************)
(* writer.py: BitWriter, the record [data_, next_bit_].                    *)
(***************************************************************************)
BitWriter ==
    [data_ |-> <<>>, next_bit_ |-> 0]

\* the bits written so far
bitCount(w) ==
    IF w.next_bit_ = 0 THEN 8 * Len(w.data_)
    ELSE 8 * (Len(w.data_) - 1) + w.next_bit_

\* write_code calls write_bit for the bits (i >> (len - j - 1)) & 0x01,
\* j = 0 .. len-1 (i may be negative).  write_bit appends a 0x00 byte when
\* next_bit_ is 0 and sets bit 7 - next_bit_ of the last byte, so bit j goes
\* to position n + j of the stream, n being the bits written before; the
\* first n \div 8 bytes are full and stay as they are.
write_code(w, i, len) ==
    LET n       == bitCount(w)
        bit(q)  == IF n <= q /\ q < n + len
                   THEN (i \div Pow2(len - (q - n) - 1)) % 2 ELSE 0
        byte(k) == bit(8 * k) * 128 + bit(8 * k + 1) * 64
                   + bit(8 * k + 2) * 32 + bit(8 * k + 3) * 16
                   + bit(8 * k + 4) * 8 + bit(8 * k + 5) * 4
                   + bit(8 * k + 6) * 2 + bit(8 * k + 7)
        full    == n \div 8
    IN IF len <= 0 THEN w
       ELSE [data_ |-> SubSeq(w.data_, 1, full)
                       \o [k \in 1..((n + len + 7) \div 8 - full) |->
                             (IF full + k <= Len(w.data_)
                              THEN w.data_[full + k] ELSE 0)
                             + byte(full + k - 1)],
             next_bit_ |-> (n + len) % 8]

\* BitWriter.add: a 0x00 is appended after every 0xFF byte; the bytes
\* data_[lo..hi] are taken in order
RECURSIVE stuff(_, _, _)
stuff(data_, lo, hi) ==
    IF lo > hi THEN <<>>
    ELSE IF lo = hi
    THEN (IF data_[lo] = 255 THEN <<255, 0>> ELSE <<data_[lo]>>)
    ELSE stuff(data_, lo, (lo + hi) \div 2)
         \o stuff(data_, (lo + hi) \div 2 + 1, hi)

add(w, data) ==
    data \o stuff(w.data_, 1, Len(w.data_))

(***************************************************************************)
(* Entropy encoder (jpeg.py 732-756, 912-986, 1201-1206, 1287-1310).       *)
(***************************************************************************)
\* "while coeff: coeff //= 2; len += 1"
calculateCoeffLength(coeff) ==
    IF coeff = 0 THEN 0
    ELSE While(LAMBDA s : s.coeff = 0,
               LAMBDA s : [coeff |-> s.coeff \div 2, len |-> s.len + 1],
               [coeff |-> IF coeff < 0 THEN -coeff ELSE coeff, len |-> 0]).len

CodeNotFound ==
    "Code cannot be found in Huffman table."

\* the table slot generateSymbolCode reads: acHuffmanTables[isChrominance]
\* or dcHuffmanTables[isChrominance]
encoderTable(header, isAC, isChrominance) ==
    IF isAC
    THEN At(header.acHuffmanTables, IF isChrominance THEN 1 ELSE 0)
    ELSE At(header.dcHuffmanTables, IF isChrominance THEN 1 ELSE 0)

\* the scan of generateSymbolCode: bit lengths in increasing order and, in the
\* slot of one length, indices in increasing order; the first hit is returned
symbolScan(huffman_table, symbol) ==
    LET slot(o) == {idx \in At(huffman_table.offsets, o) ..
                              (At(huffman_table.offsets, o + 1) - 1) :
                        At(huffman_table.symbols, idx) = symbol}
        lens    == {o \in 0..15 : slot(o) # {}}
    IN IF lens = {} THEN [err |-> CodeNotFound, code |-> 0, length |-> 0]
       ELSE LET offset == CHOOSE o \in lens : \A o2 \in lens : o <= o2
                idx    == CHOOSE i \in slot(offset) :
                              \A i2 \in slot(offset) : i <= i2
            IN [err |-> "", code |-> At(huffman_table.codes, idx),
                length |-> offset + 1]

generateSymbolCode(header, symbol, isAC, isChrominance) ==
    LET huffman_table == encoderTable(header, isAC, isChrominance)
    IN symbolScan(huffman_table, symbol)

\* one symbol followed by the coefficient's bits (lines 961-970 and 922-934)
writeCoeff(header, w, symbol, coeff, coeff_len, isAC, isChrominance) ==
    Bind(generateSymbolCode(header, symbol, isAC, isChrominance), LAMBDA c :
       IF c.err # "" THEN [err |-> c.err, writer |-> w]
       ELSE [err |-> "",
             writer |-> write_code(write_code(w, c.code, c.length),
                                   IF coeff < 0 THEN coeff - 1 ELSE coeff,
                                   coeff_len)])

\* "while number_of_zeros >= 16" (lines 954-958); s is the record
\* [err, writer, number_of_zeros]
writeZRL(header, s, isChrominance) ==
    Bind(generateSymbolCode(header, 240, TRUE, isChrominance), LAMBDA c :
       While(LAMBDA t : t.err # "" \/ t.number_of_zeros < 16,
             LAMBDA t : IF c.err # "" THEN [t EXCEPT !.err = c.err]
                        ELSE [t EXCEPT
                                 !.writer = write_code(@, c.code, c.length),
                                 !.number_of_zeros = @ - 16],
             s))

\* the body of "for j in range(63)" (lines 942-970); s is the record
\* [err, writer, number_of_zeros]
writeACStep(header, channel, isChrominance, s, j) ==
    Bind(At(channel.acCoeff, j), LAMBDA coeff :
    Bind(generateSymbolCode(header, 0, TRUE, isChrominance), LAMBDA eob :
    Bind(writeZRL(header, s, isChrominance), LAMBDA z :
    Bind(calculateCoeffLength(coeff), LAMBDA coeff_len :
    Bind(writeCoeff(header, z.writer, z.number_of_zeros * 16 + coeff_len,
                    coeff, coeff_len, TRUE, isChrominance), LAMBDA r :
       IF s.err # "" THEN s
       ELSE IF j = 62 /\ coeff = 0
       THEN (IF eob.err # "" THEN [s EXCEPT !.err = eob.err]
             ELSE [s EXCEPT !.writer = write_code(@, eob.code, eob.length)])
       ELSE IF coeff = 0
       THEN [s EXCEPT !.number_of_zeros = @ + 1]
       ELSE IF z.err # "" THEN z
       ELSE IF r.err # "" THEN [s EXCEPT !.err = r.err]
       ELSE [err |-> "", writer |-> r.writer, number_of_zeros |-> 0])))))

writeBlock(header, channel, w, isChrominance) ==
    Bind(calculateCoeffLength(channel.dcCoeff), LAMBDA coeff_len :
    Bind(writeCoeff(header, w, coeff_len, channel.dcCoeff, coeff_len,
                    FALSE, isChrominance), LAMBDA d :
       IF d.err # "" THEN d
       ELSE Bind(For(LAMBDA s, j : writeACStep(header, channel,
                                               isChrominance, s, j),
                     [err |-> "", writer |-> d.writer, number_of_zeros |-> 0],
                     0, 62), LAMBDA r :
               [err |-> r.err, writer |-> r.writer])))

\* s is the record [err, writer]
writeMCU(header, mcu, s) ==
    Bind(For(LAMBDA t, i : writeBlock(header, At(mcu.luminance, i),
                                      t.writer, FALSE),
             s, 0, luminanceBlocks(header) - 1), LAMBDA y :
    Bind(writeBlock(header, At(mcu.chrominance, 0), y.writer, TRUE),
         LAMBDA cb :
       IF y.err # "" THEN y
       ELSE IF header.startOfFrame.numOfComponents > 1
       THEN (IF cb.err # "" THEN cb
             ELSE writeBlock(header, At(mcu.chrominance, 1), cb.writer, TRUE))
       ELSE y))

makeBitstream(j, bitstream) ==
    Bind(For(LAMBDA s, i : writeMCU(j.header, At(j.MCUVector, i), s),
             [err |-> "", writer |-> BitWriter],
             0, Len(j.MCUVector) - 1), LAMBDA r :
       IF r.err # "" THEN [err |-> r.err, bytes |-> bitstream]
       ELSE [err |-> "", bytes |-> add(r.writer, bitstream)])

(***************************************************************************)
(* Container writer (jpeg.py 405-434, 534-567, 630-661, 693-712, 758-780,  *)
(* 1166-1199).                                                             *)
(***************************************************************************)
writeAPP0(header, bytes) ==
    bytes \o <<255, 224>> \o header.app0Marker

writeDQT(header, bytes) ==
    bytes \o header.quantizationTablesData

sofComponent(c) ==
    <<c.identifier % 256,
      (c.horizontalSamplingFactor % 16) * 16 + (c.verticalSamplingFactor % 16),
      c.quantizationTableNumber % 256>>

RECURSIVE sofComponents(_, _)
sofComponents(header, i) ==
    IF i >= header.startOfFrame.numOfComponents THEN <<>>
    ELSE sofComponent(At(header.components, i)) \o sofComponents(header, i + 1)

writeSOF(header, data) ==
    data \o <<255, 192, 0,
              IF header.startOfFrame.numOfComponents = 1 THEN 11 ELSE 17,
              8,
              (header.startOfFrame.height \div 256) % 256,
              header.startOfFrame.height % 256,
              (header.startOfFrame.width \div 256) % 256,
              header.startOfFrame.width % 256,
              header.startOfFrame.numOfComponents % 256>>
         \o sofComponents(header, 0)

RECURSIVE dhtCounts(_, _)
dhtCounts(huffTable, j) ==
    IF j = 16 THEN <<>>
    ELSE <<(At(huffTable.offsets, j + 1) - At(huffTable.offsets, j)) % 256>>
         \o dhtCounts(huffTable, j + 1)

\* table is 0 (DC) or 1 (AC); total_codes is the sum of the 16 differences
writeDHT(header, data, table, id) ==
    LET huffTable   == IF table # 0 THEN At(header.acHuffmanTables, id)
                       ELSE At(header.dcHuffmanTables, id)
        total_codes == At(huffTable.offsets, 16) - At(huffTable.offsets, 0)
    IN data \o <<255, 196, 0, IF table # 0 THEN 181 ELSE 31,
                 table * 16 + (id % 16)>>
            \o dhtCounts(huffTable, 0)
            \o Slice(huffTable.symbols, 0, total_codes)

RECURSIVE sosComponents(_, _)
sosComponents(header, i) ==
    IF i >= header.startOfFrame.numOfComponents THEN <<>>
    ELSE LET c == At(header.components, i)
         IN <<c.identifier, c.dcHuffmanTableId * 16 + c.acHuffmanTableId>>
            \o sosComponents(header, i + 1)

writeSOS(header, bytes) ==
    bytes \o <<255, 218, 0, 6 + 2 * header.startOfFrame.numOfComponents,
               header.startOfFrame.numOfComponents>>
          \o sosComponents(header, 0)
          \o <<0, 63, 0>>

fillHeaderBytesSofFirst(header, bytes) ==
    LET b0 == bytes \o <<255, 216>>
        b1 == IF Len(header.app0Marker) > 0 THEN writeAPP0(header, b0) ELSE b0
        b2 == writeSOF(header, b1)
        b3 == writeDQT(header, b2)
        b4 == writeDHT(header, b3, 0, 0)
        b5 == writeDHT(header, b4, 0, 1)
        b6 == writeDHT(header, b5, 1, 0)
        b7 == writeDHT(header, b6, 1, 1)
    IN writeSOS(header, b7)

fillHeaderBytes(header, bytes) ==
    LET b0 == bytes \o <<255, 216>>
        b1 == IF Len(header.app0Marker) > 0 THEN writeAPP0(header, b0) ELSE b0
        b2 == writeDQT(header, b1)
        b3 == writeSOF(header, b2)
        b4 == writeDHT(header, b3, 0, 0)
        b5 == writeDHT(header, b4, 0, 1)
        b6 == writeDHT(header, b5, 1, 0)
        b7 == writeDHT(header, b6, 1, 1)
    IN writeSOS(header, b7)

\* lines 1175-1183: the four tables saveJPGData builds
dcLuminance ==
    optimizeHuffmanTable(HuffmanTable, "dc", "lum")

dcChrominance ==
    optimizeHuffmanTable(HuffmanTable, "dc", "chr")

acLuminance ==
    optimizeHuffmanTable(HuffmanTable, "ac", "lum")

acChrominance ==
    optimizeHuffmanTable(HuffmanTable, "ac", "chr")

keepInputTables(header) ==
    header

\* lines 1186-1189: they replace the header's tables 0 and 1
standardTables(header) ==
    [header EXCEPT
        !.dcHuffmanTables = [@ EXCEPT ![1] = dcLuminance, ![2] = dcChrominance],
        !.acHuffmanTables = [@ EXCEPT ![1] = acLuminance, ![2] = acChrominance]]

saveJPGDataHeaderFirst(j) ==
    Bind([j EXCEPT !.header = standardTables(j.header)], LAMBDA j1 :
    Bind(makeBitstream(j1, fillHeaderBytes(j1.header, <<>>)), LAMBDA bs :
       [err |-> bs.err, jpg |-> j1,
        bytes |-> IF bs.err # "" THEN bs.bytes
                  ELSE bs.bytes \o <<255, 217>>,
        written |-> TRUE]))

\* written is TRUE when writeToFile was reached
saveJPGData(j) ==
    Bind([j EXCEPT !.header = standardTables(j.header)], LAMBDA j1 :
    Bind(makeBitstream(j1, fillHeaderBytes(j1.header, <<>>)), LAMBDA bs :
       IF bs.err # ""
       THEN [err |-> bs.err, jpg |-> j1, bytes |-> <<>>, written |-> FALSE]
       ELSE [err |-> "", jpg |-> j1, bytes |-> bs.bytes \o <<255, 217>>,
             written |-> TRUE]))

(***************************************************************************)
(* Marker scanner and header parsers (jpeg.py 14-80, 264-310, 335-403,     *)
(* 436-532, 569-628, 663-730).                                             *)
(***************************************************************************)
supportedMarkers ==
    [m \in {216, 224, 219, 192, 196, 218, 217, 221} |->
        CASE m = 216 -> "Start of Image (SOI)"
          [] m = 224 -> "JFIF segment marker (APP0)"
          [] m = 219 -> "Define Quantization Table (DQT)"
          [] m = 192 -> "Start of Frame (SOF)"
          [] m = 196 -> "Define Huffman Table (DHT)"
          [] m = 218 -> "Start of Scan (SOS)"
          [] m = 217 -> "End of Image (EOI)"
          [] m = 221 -> "Define Restart Interval (DRI)"]

\* the keys of the dictionary; its values are descriptions nothing reads
unsupportedMarkers ==
    {193, 194, 195, 197, 198, 199, 201, 202, 203, 205, 206, 207, 204, 1,
     239, 220, 223}

\* Python values that readHeader compares across types carry their type
PyNone ==
    [t |-> "None", v |-> ""]

PyStr(x) ==
    [t |-> "str", v |-> x]

\* dict.get(key) on supportedMarkers: the description, or None
get(dict, key) ==
    IF key \in DOMAIN dict THEN PyStr(dict[key]) ELSE PyNone

\* "x in unsupportedMarkers": the keys are ints, so only an int can match
inUnsupportedMarkers(x) ==
    x.t = "int" /\ x.v \in unsupportedMarkers

UnsupportedMarker ==
    "Error: Unsupported marker found in file."

NotAJPEG ==
    "file is not a valid JPEG file."

\* one pass of "while True" of loadJPEG; s is the record [pos, err, done].
\* Every chunk is appended to filedata, so filedata is the file's bytes; a
\* lone byte where a chunk header is expected makes chunk_header[1] fail, and
\* a chunk size below 2 reads to the end of the file.
loadChunk(file, s) ==
    LET chunk_size == At(file, s.pos) * 256 + At(file, s.pos + 1)
    IN IF s.pos >= Len(file) THEN [s EXCEPT !.done = TRUE]
       ELSE IF s.pos = Len(file) - 1
       THEN [s EXCEPT !.err = "IndexError", !.done = TRUE]
       ELSE IF chunk_size - 2 < 0 THEN [s EXCEPT !.pos = Len(file)]
       ELSE [s EXCEPT !.pos = Min(@ + 2 + (chunk_size - 2), Len(file))]

loadJPEG(file) ==
    IF Len(file) < 2 THEN [err |-> NotAJPEG, filedata |-> <<>>]
    ELSE IF At(file, 0) * 256 + At(file, 1) # 65496
    THEN [err |-> NotAJPEG, filedata |-> <<>>]
    ELSE [err |-> While(LAMBDA s : s.done,
                        LAMBDA s : loadChunk(file, s),
                        [pos |-> 2, err |-> "", done |-> FALSE]).err,
          filedata |-> file]

readMarkerLength(data, start) ==
    At(data, start) * 256 + At(data, start + 1)

RECURSIVE readSOSComponents(_, _, _, _)
readSOSComponents(header, data, i, j) ==
    IF j >= header.startOfFrame.numOfComponents
    THEN [err |-> "", header |-> header, i |-> i]
    ELSE LET componentId == At(data, i + 1)
             acId == At(data, i + 2) % 16
             dcId == At(data, i + 2) \div 16
         IN IF componentId # At(header.components, j).identifier
            THEN [err |-> "Error - Wrong Component ID in Start of Scan.",
                  header |-> header, i |-> i]
            ELSE IF acId > 3
            THEN [err |-> "Error - Invalid Huffman AC table ID",
                  header |-> header, i |-> i]
            ELSE IF dcId > 3
            THEN [err |-> "Error - Invalid Huffman DC table ID",
                  header |-> [header EXCEPT
                      !.components[j + 1].acHuffmanTableId = acId],
                  i |-> i]
            ELSE readSOSComponents(
                    [header EXCEPT
                        !.components[j + 1].acHuffmanTableId = acId,
                        !.components[j + 1].dcHuffmanTableId = dcId],
                    data, i + 2, j + 1)

readSOS(header, data, start, len) ==
    IF At(data, start + 2) # header.startOfFrame.numOfComponents
    THEN [err |-> "Error - Wrong number of components in Start of Scan.",
          header |-> header]
    ELSE Bind(readSOSComponents(header, data, start + 2, 0), LAMBDA c :
         Bind(c.i + 3, LAMBDA i :
         Bind(At(data, i), LAMBDA successiveApprox :
         Bind([c.header EXCEPT
                 !.startOfSelection = At(data, i - 2),
                 !.endOfSeleciton = At(data, i - 1),
                 !.successiveApproxHigh = successiveApprox \div 16,
                 !.successiveApproxLow = successiveApprox % 16], LAMBDA h :
            IF c.err # "" THEN [err |-> c.err, header |-> c.header]
            ELSE IF h.startOfSelection # 0 \/ h.endOfSeleciton # 63
            THEN [err |-> "Error - Invalid spectral selection", header |-> h]
            ELSE IF h.successiveApproxHigh # 0 \/ h.successiveApproxLow # 0
            THEN [err |-> "Error - Invalid successive approximation",
                  header |-> h]
            ELSE IF i # start + len - 1
            THEN [err |-> "Error - Number of bytes do not equal the length of marker.",
                  header |-> h]
            ELSE [err |-> "",
                  header |-> [h EXCEPT !.startOfScan.set = TRUE]]))))

\* the identifiers accepted so far are those of components 0 .. j-1
RECURSIVE readSOFComponents(_, _, _, _)
readSOFComponents(header, data, i, j) ==
    IF j >= header.startOfFrame.numOfComponents
    THEN [err |-> "", header |-> header, i |-> i]
    ELSE LET raw  == At(data, i + 1)
             zb   == header.zeroBased \/ raw = 0
             id   == IF zb THEN raw + 1 ELSE raw
             h    == [header EXCEPT
                        !.zeroBased = zb,
                        !.components[j + 1].identifier = id,
                        !.components[j + 1].horizontalSamplingFactor =
                            At(data, i + 2) \div 16,
                        !.components[j + 1].verticalSamplingFactor =
                            At(data, i + 2) % 16,
                        !.components[j + 1].quantizationTableNumber =
                            At(data, i + 3)]
             seen == {At(header.components, k).identifier : k \in 0..(j - 1)}
         IN IF id = 4 \/ id = 5
            THEN [err |-> "Error - YIQ colour mode is not supported.",
                  header |-> h, i |-> i]
            ELSE IF id = 0 \/ id > 3
            THEN [err |-> "Error - Invalid colour component.",
                  header |-> h, i |-> i]
            ELSE IF id \in seen
            THEN [err |-> "Error - Duplicate colour component ID",
                  header |-> h, i |-> i]
            ELSE readSOFComponents(h, data, i + 3, j + 1)

readSOF(header, data, start, len) ==
    Bind(start + 2, LAMBDA i0 :
    Bind([header EXCEPT
             !.startOfFrame.precision = At(data, i0),
             !.startOfFrame.height =
                 header.startOfFrame.height + At(data, i0 + 1) * 256
                     + At(data, i0 + 2)], LAMBDA h1 :
    Bind([h1 EXCEPT
             !.startOfFrame.width =
                 header.startOfFrame.width + At(data, i0 + 3) * 256
                     + At(data, i0 + 4)], LAMBDA h2 :
    Bind(At(data, i0 + 5), LAMBDA n :
    Bind(readSOFComponents([h2 EXCEPT !.startOfFrame.numOfComponents = n],
                           data, i0 + 5, 0), LAMBDA c :
    Bind(c.header.components, LAMBDA cs :
    Bind(IF n > 1 THEN c.header
         ELSE [c.header EXCEPT
                 !.components[1].verticalSamplingFactor = 1,
                 !.components[1].horizontalSamplingFactor = 1], LAMBDA h4 :
       IF At(data, i0) # 8
       THEN [err |-> "Invalid data precision.", header |-> header]
       ELSE IF h1.startOfFrame.height = 0
       THEN [err |-> "Error - Image height is 0 px.", header |-> h1]
       ELSE IF h2.startOfFrame.width = 0
       THEN [err |-> "Error - Image width is 0 px.", header |-> h2]
       ELSE IF n = 0
       THEN [err |-> "Error - Number of colour components cannot be zero.",
             header |-> h2]
       ELSE IF n = 4
       THEN [err |-> "Error - CMYK colour mode is not supported.",
             header |-> h2]
       ELSE IF n # 1 /\ n # 3
       THEN [err |-> "Error - Invalid number of components.", header |-> h2]
       ELSE IF c.err # "" THEN [err |-> c.err, header |-> c.header]
       ELSE IF n > 1
               /\ (\/ (cs[1].verticalSamplingFactor # 1
                       /\ cs[1].verticalSamplingFactor # 2)
                   \/ (cs[1].horizontalSamplingFactor # 1
                       /\ cs[1].horizontalSamplingFactor # 2)
                   \/ cs[2].horizontalSamplingFactor # 1
                   \/ cs[2].verticalSamplingFactor # 1
                   \/ cs[3].horizontalSamplingFactor # 1
                   \/ cs[3].verticalSamplingFactor # 1)
       THEN [err |-> "Error - Invalid sampling factor.", header |-> c.header]
       ELSE IF c.i # start + len - 1
       THEN [err |-> "Incorrect Start of Frame length.", header |-> h4]
       ELSE [err |-> "",
             header |-> [h4 EXCEPT !.startOfFrame.set = TRUE]])))))))

RECURSIVE BitOr(_, _)
BitOr(a, b) ==
    IF a = 0 THEN b
    ELSE IF b = 0 THEN a
    ELSE (IF a % 2 = 1 \/ b % 2 = 1 THEN 1 ELSE 0)
         + 2 * BitOr(a \div 2, b \div 2)

\* the sum of the count bytes data[i+1] .. data[i+j]
RECURSIVE allCodesAfter(_, _, _)
allCodesAfter(data, i, j) ==
    IF j = 0 THEN 0 ELSE allCodesAfter(data, i, j - 1) + At(data, i + j)

\* the 16 count bytes of one table: offsets[j] is the running total
dhtOffsets(offsets, data, i) ==
    [offsets |-> [k \in 1..17 |->
                     IF k = 1 THEN offsets[1]
                     ELSE allCodesAfter(data, i, k - 1)],
     allCodes |-> allCodesAfter(data, i, 16)]

\* one pass of "while i < (start + len)"; s is the record [err, header, i].
\* tableType and tableId are read once, before the loop.
readDHTStep(s, data, len, tableType, tableId) ==
    Bind(s.header, LAMBDA header :
    Bind(s.i, LAMBDA i :
    Bind(IF tableType = 0 THEN At(header.dcHuffmanTables, tableId)
         ELSE At(header.acHuffmanTables, tableId), LAMBDA old :
    Bind(dhtOffsets(old.offsets, data, i), LAMBDA o :
    Bind(generateHuffmanCodes(
             [old EXCEPT !.table_type = tableType,
                         !.offsets = o.offsets,
                         !.symbols = [k \in 1..162 |->
                                        IF k <= o.allCodes
                                        THEN At(data, i + 16 + k)
                                        ELSE old.symbols[k]],
                         !.numberOfCodes = o.allCodes,
                         !.table_length = len,
                         !.destination_id = tableId,
                         !.set = TRUE]), LAMBDA new :
    Bind(IF tableType = 0
         THEN [header EXCEPT !.dcHuffmanTables[tableId + 1] = new]
         ELSE [header EXCEPT !.acHuffmanTables[tableId + 1] = new], LAMBDA h :
       IF tableType > 1
       THEN [s EXCEPT
                !.err = "Error - Wrong Huffman table class. Not AC or DC."]
       ELSE IF tableId > 3
       THEN [s EXCEPT
                !.err = "Error- Wrong Huffman Table Destination Identifier"]
       ELSE IF tableId > 1 THEN [s EXCEPT !.err = "IndexError"]
       ELSE IF old.set
       THEN [s EXCEPT
                !.err = "Error - Huffman table was assigned multiple times."]
       ELSE IF o.allCodes > 162 THEN [s EXCEPT !.err = "IndexError"]
       ELSE [err |-> "", header |-> h,
             i |-> i + 16 + o.allCodes + 1]))))))

readDHT(header, data, start, len) ==
    Bind(While(LAMBDA s : s.err # "" \/ ~(s.i < start + len),
               LAMBDA s : readDHTStep(s, data, len,
                                      At(data, start + 2) \div 16,
                                      At(data, start + 2) % 16),
               [err |-> "", header |-> header, i |-> start + 2]),
         LAMBDA r : [err |-> r.err, header |-> r.header])

\* "table[i - start - 3] = data[i]" for i in range(start + 1, start + length):
\* a negative Python index counts from the end of the 64 entries, an index
\* of 64 or more fails.  Entry p keeps the last value written to it.
dqtTable(data, start, length) ==
    IF length - 4 >= 64 THEN [err |-> "IndexError", table |-> Repeat(0, 64)]
    ELSE [err |-> "",
          table |-> [k \in 1..64 |->
              LET p == k - 1
              IN IF start + 3 + p < start + length
                 THEN At(data, start + 3 + p)
                 ELSE IF p - 64 >= -2 /\ start + 3 + (p - 64) < start + length
                 THEN At(data, start + 3 + (p - 64))
                 ELSE 0]]

readDQT(header, data, start, len) ==
    LET length          == At(data, start + 1)
        table_info      == At(data, start + 2)
        table_precision == table_info \div 16
        table_id        == table_info % 16
        t  == dqtTable(data, start, length)
        qt == [table |-> t.table, length |-> length,
               precision |-> IF table_precision # 0 THEN 16 ELSE 8,
               dest_id |-> table_id, set |-> FALSE]
    IN IF table_id > 3
       THEN [err |-> "Error - Invalid quantization table ID", header |-> header]
       ELSE IF t.err # "" THEN [err |-> t.err, header |-> header]
       ELSE [err |-> "",
             header |-> [header EXCEPT
                 !.quantizationTables = Append(@, qt),
                 !.quantizationTablesData =
                     @ \o <<255, 219>>
                       \o Slice(data, start, Min(start + length, Len(data)))]]

readAPP0(header, data, start, len) ==
    [err |-> "",
     header |-> [header EXCEPT
         !.app0Marker = Slice(data, start, Min(start + len, Len(data)))]]

readDRI(header, data, start, len) ==
    IF len # 4
    THEN [err |-> "Error - Wrong length of Restart Interval Marker. Length is not 4.",
          header |-> header]
    ELSE [err |-> "",
          header |-> [header EXCEPT
              !.restartInterval =
                  BitOr(BitOr(@, At(data, start + 2)) * 256,
                        At(data, start + 3))]]

\* the dispatch of readHeader, lines 294-308
readSegment(header, data, currByte, i, markerLen) ==
    LET marker == get(supportedMarkers, currByte)
    IN IF marker = PyStr("Start of Frame (SOF)")
       THEN readSOF(header, data, i, markerLen)
       ELSE IF marker = PyStr("Start of Scan (SOS)")
       THEN readSOS(header, data, i, markerLen)
       ELSE IF marker = PyStr("Define Restart Interval (DRI)")
       THEN readDRI(header, data, i, markerLen)
       ELSE IF marker = PyStr("Define Huffman Table (DHT)")
       THEN readDHT(header, data, i, markerLen)
       ELSE IF marker = PyStr("Define Quantization Table (DQT)")
       THEN readDQT(header, data, i, markerLen)
       ELSE IF marker = PyStr("JFIF segment marker (APP0)")
       THEN readAPP0(header, data, i, markerLen)
       ELSE IF inUnsupportedMarkers(marker)
       THEN [err |-> UnsupportedMarker, header |-> header]
       ELSE [err |-> "", header |-> header]

\* one pass of "while i < len(data)"; s is the record [err, header, i, done],
\* done after the break
readHeaderStep(s, data) ==
    Bind(s.i, LAMBDA i :
    Bind(readMarkerLength(data, i + 2), LAMBDA markerLen :
    Bind(readSegment(s.header, data, At(data, i + 1), i + 2, markerLen),
         LAMBDA r :
       IF s.header.startOfScan.set
       THEN [s EXCEPT !.header.bitstreamIndex = i, !.done = TRUE]
       ELSE IF At(data, i) # 255 THEN [s EXCEPT !.i = i + 1]
       ELSE IF i + 1 >= Len(data) THEN [s EXCEPT !.err = "IndexError"]
       ELSE IF At(data, i + 1) \in {216, 217, 1, 255}
       THEN [s EXCEPT !.i = i + 2]
       ELSE IF i + 3 >= Len(data) THEN [s EXCEPT !.err = "IndexError"]
       ELSE IF r.err # "" THEN [s EXCEPT !.err = r.err, !.header = r.header]
       ELSE [s EXCEPT !.header = r.header, !.i = i + 2 + markerLen])))

readHeader(header, data) ==
    Bind(While(LAMBDA s : s.err # "" \/ s.done \/ ~(s.i < Len(data)),
               LAMBDA s : readHeaderStep(s, data),
               [err |-> "", header |-> header, i |-> 0, done |-> FALSE]),
         LAMBDA r : [err |-> r.err, header |-> r.header])

(***************************************************************************)
(* Entropy decoder (jpeg.py 798-910, 988-1017, 1112-1131).                 *)
(***************************************************************************)
\* the first index of the slot whose code agrees with the accumulated code in
\* the low `length` bits (code & mirror); -1 when the slot has none
matchCode(huffmanTable, code, length, start, stop) ==
    LET hits == {i \in start..(stop - 1) :
                    code % Pow2(length)
                        = At(huffmanTable.codes, i) % Pow2(length)}
    IN IF hits = {} THEN -1
       ELSE CHOOSE i \in hits : \A i2 \in hits : i <= i2

\* one pass of "while(length <= 16 and not valid)"; s is the record
\* [err, reader, code, length, valid, index]
readNextSymbolStep(huffmanTable, s) ==
    Bind(readNextBit(s.reader, 1), LAMBDA b :
    Bind(s.code * 2 + (b.result % 2), LAMBDA c :
    Bind(matchCode(huffmanTable, c, s.length,
                   At(huffmanTable.offsets, s.length - 1),
                   At(huffmanTable.offsets, s.length)), LAMBDA hit :
       IF b.err # "" THEN [s EXCEPT !.err = b.err]
       ELSE IF hit >= 0
       THEN [s EXCEPT !.reader = b.reader, !.code = c, !.valid = TRUE,
                      !.index = hit]
       ELSE [s EXCEPT !.reader = b.reader, !.code = c, !.length = @ + 1])))

\* "while(length <= 16 and not valid)"; index stays 0 when no code matched,
\* and symbols[0] is returned
readNextSymbol(bits, huffmanTable) ==
    Bind(While(LAMBDA t : t.err # "" \/ ~(t.length <= 16 /\ ~t.valid),
               LAMBDA t : readNextSymbolStep(huffmanTable, t),
               [err |-> "", reader |-> bits, code |-> 0,
                length |-> 1, valid |-> FALSE, index |-> 0]), LAMBDA s :
       [err |-> s.err, symbol |-> At(huffmanTable.symbols, s.index),
        reader |-> s.reader])

signExtendTwosComplement(coefficient_unsigned, coefficient_length) ==
    IF coefficient_length = 0 THEN coefficient_unsigned
    ELSE IF coefficient_unsigned < Pow2(coefficient_length - 1)
    THEN coefficient_unsigned - Pow2(coefficient_length)
    ELSE coefficient_unsigned

\* lines 868-871 and 899-902; pow(2, -1) is 0.5, so a 0-bit field gives 0
signExtend(coefficient_unsigned, coefficient_length) ==
    IF coefficient_length = 0 THEN coefficient_unsigned
    ELSE IF coefficient_unsigned < Pow2(coefficient_length - 1)
    THEN coefficient_unsigned - Pow2(coefficient_length) + 1
    ELSE coefficient_unsigned

\* the counting rule that leaves out every coefficient of magnitude below 2
countsMagnitudeTwoUp(coefficient_signed) ==
    coefficient_signed > 1 \/ coefficient_signed < -1

\* line 908
countsAsCapacity(coefficient_signed) ==
    coefficient_signed # 0 /\ coefficient_signed # 1

\* one pass of "while coefficient_read < 63" (lines 878-909); s is the record
\* [err, channel, reader, Bits, coefficient_read, done], done after the break
decodeACStep(ac, s) ==
    Bind(readNextSymbol(s.reader, ac), LAMBDA y :
    Bind(y.symbol % 16, LAMBDA coefficient_length :
    Bind((y.symbol \div 16) % 16, LAMBDA runlength :
    Bind(s.coefficient_read + runlength, LAMBDA at :
    Bind(readNextBit(y.reader, coefficient_length), LAMBDA u :
    Bind(signExtend(u.result, coefficient_length), LAMBDA coefficient_signed :
       IF y.err # "" THEN [s EXCEPT !.err = y.err]
       ELSE IF y.symbol = 0 THEN [s EXCEPT !.reader = y.reader, !.done = TRUE]
       ELSE IF y.symbol = 240
       THEN [s EXCEPT !.reader = y.reader, !.coefficient_read = @ + 16]
       ELSE IF u.err # "" THEN [s EXCEPT !.err = u.err]
       ELSE IF at > 62 THEN [s EXCEPT !.err = "IndexError"]
       ELSE [s EXCEPT !.channel.acCoeff[at + 1] = coefficient_signed,
                      !.reader = u.reader,
                      !.coefficient_read = at + 1,
                      !.Bits = IF countsAsCapacity(coefficient_signed)
                               THEN @ + 1 ELSE @]))))))

decodeAC(channel, bit, ac, Bits) ==
    While(LAMBDA s : s.err # "" \/ s.done \/ ~(s.coefficient_read < 63),
          LAMBDA s : decodeACStep(ac, s),
          [err |-> "", channel |-> channel, reader |-> bit,
           Bits |-> Bits, coefficient_read |-> 0, done |-> FALSE])

decodeBlock(channel, bit, dc, ac, Bits) ==
    Bind(readNextSymbol(bit, dc), LAMBDA s :
    Bind(s.symbol % 16, LAMBDA coefficient_length :
    Bind(IF s.symbol = 0 THEN [result |-> 0, reader |-> s.reader, err |-> ""]
         ELSE readNextBit(s.reader, coefficient_length), LAMBDA u :
    Bind(IF s.symbol = 0 THEN 0
         ELSE signExtend(u.result, coefficient_length), LAMBDA dcCoeff :
       IF s.err # ""
       THEN [err |-> s.err, channel |-> channel, reader |-> bit, Bits |-> Bits]
       ELSE IF u.err # ""
       THEN [err |-> u.err, channel |-> channel, reader |-> bit, Bits |-> Bits]
       ELSE decodeAC([channel EXCEPT !.dcCoeff = dcCoeff], u.reader, ac,
                     Bits)))))

\* the Huffman tables a component's blocks are decoded with
dcTableOf(header, c) ==
    At(header.dcHuffmanTables, At(header.components, c).dcHuffmanTableId)

acTableOf(header, c) ==
    At(header.acHuffmanTables, At(header.components, c).acHuffmanTableId)

tableIdsInRange(header, c) ==
    /\ At(header.components, c).dcHuffmanTableId <= 1
    /\ At(header.components, c).acHuffmanTableId <= 1

\* the body of "for i in range(luminanceBlocks)" of decodeMCU; s is the
\* record [err, mcu, reader, Bits]
decodeLuminance(header, s, i) ==
    Bind(decodeBlock(At(s.mcu.luminance, i), s.reader,
                     dcTableOf(header, 0), acTableOf(header, 0), s.Bits),
         LAMBDA r :
       IF i > 3 \/ ~tableIdsInRange(header, 0)
       THEN [s EXCEPT !.err = "IndexError"]
       ELSE IF r.err # "" THEN [s EXCEPT !.err = r.err]
       ELSE [err |-> "", mcu |-> [s.mcu EXCEPT !.luminance[i + 1] = r.channel],
             reader |-> r.reader, Bits |-> r.Bits])

decodeMCU(header, mcu, bit, Bits) ==
    Bind(For(LAMBDA s, i : decodeLuminance(header, s, i),
             [err |-> "", mcu |-> mcu, reader |-> bit, Bits |-> Bits],
             0, luminanceBlocks(header) - 1), LAMBDA y :
    Bind(decodeBlock(At(y.mcu.chrominance, 0), y.reader,
                     dcTableOf(header, 1), acTableOf(header, 1), y.Bits),
         LAMBDA cb :
    Bind(decodeBlock(At(y.mcu.chrominance, 1), cb.reader,
                     dcTableOf(header, 2), acTableOf(header, 2), cb.Bits),
         LAMBDA cr :
       IF y.err # "" THEN y
       ELSE IF ~(header.startOfFrame.numOfComponents > 1) THEN y
       ELSE IF ~tableIdsInRange(header, 1) \/ ~tableIdsInRange(header, 2)
       THEN [err |-> "IndexError", mcu |-> y.mcu, reader |-> y.reader,
             Bits |-> y.Bits]
       ELSE IF cb.err # ""
       THEN [err |-> cb.err, mcu |-> y.mcu, reader |-> y.reader,
             Bits |-> y.Bits]
       ELSE IF cr.err # ""
       THEN [err |-> cr.err, mcu |-> y.mcu, reader |-> cb.reader,
             Bits |-> cb.Bits]
       ELSE [err |-> "",
             mcu |-> [y.mcu EXCEPT !.chrominance[1] = cb.channel,
                                   !.chrominance[2] = cr.channel],
             reader |-> cr.reader, Bits |-> cr.Bits])))

\* lines 807-814: the bytes from bitstreamIndex on; the 0x00 that follows a
\* 0xFF is dropped.  A 0xFF as the last byte makes data[i+1] fail.
unstuff(data, start) ==
    LET Kept(k) == ~(At(data, k) = 0 /\ k - 1 >= start /\ At(data, k - 1) = 255)
        idxs    == SelectSeq([k \in 1..(Len(data) - start) |-> start + k - 1],
                             Kept)
    IN IF start < Len(data) /\ At(data, Len(data) - 1) = 255
       THEN [err |-> "IndexError", bytestream |-> <<>>]
       ELSE [err |-> "",
             bytestream |-> [k \in 1..Len(idxs) |-> At(data, idxs[k])]]

\* lines 818-833
totalMCU(header) ==
    LET w0 == (header.startOfFrame.width + 7) \div 8
        h0 == (header.startOfFrame.height + 7) \div 8
        hs == At(header.components, 0).horizontalSamplingFactor
        vs == At(header.components, 0).verticalSamplingFactor
        bWidth  == IF w0 % 2 = 1 /\ hs = 2 THEN w0 + 1 ELSE w0
        bHeight == IF h0 % 2 = 1 /\ vs = 2 THEN h0 + 1 ELSE h0
    IN (bHeight * bWidth) \div (vs * hs)

\* the body of "for i in range(totalMCU)"; s is the record [err, jpg, bits]
decodeOne(s) ==
    Bind(decodeMCU(s.jpg.header, MinimumCodedUnit, s.bits, s.jpg.Bits),
         LAMBDA r :
       IF r.err # "" THEN [s EXCEPT !.err = r.err]
       ELSE [err |-> "",
             jpg |-> [s.jpg EXCEPT !.MCUVector = Append(@, r.mcu),
                                   !.Bits = r.Bits],
             bits |-> r.reader])

decodeBitstream(j, data) ==
    Bind(unstuff(data, j.header.bitstreamIndex), LAMBDA u :
       IF u.err # "" THEN [err |-> u.err, jpg |-> j]
       ELSE IF luminanceBlocks(j.header) = 0
       THEN [err |-> "ZeroDivisionError", jpg |-> j]
       ELSE Bind(For(LAMBDA s, i : decodeOne(s),
                     [err |-> "", jpg |-> j,
                      bits |-> BitReader(u.bytestream)],
                     0, totalMCU(j.header) - 1), LAMBDA r :
               [err |-> r.err, jpg |-> r.jpg]))

\* JPG.__init__: loadJPEG, readHeader, decodeBitstream
JPG(file) ==
    Bind(loadJPEG(file), LAMBDA l :
    Bind(readHeader(Header, l.filedata), LAMBDA h :
    Bind([NewJPG EXCEPT !.header = h.header], LAMBDA j :
       IF l.err # "" THEN [err |-> l.err, jpg |-> NewJPG]
       ELSE IF h.err # "" THEN [err |-> h.err, jpg |-> j]
       ELSE decodeBitstream(j, l.filedata))))

(***************************************************************************)
(* Inputs: cover images and secret files.                                  *)
(***************************************************************************)
Cycle(period, n) ==
    [k \in 1..n |-> period[((k - 1) % Len(period)) + 1]]

DensePeriod ==
    <<2, -3, 4, -1, 5, 1, -2, 3, -6, 7, -4, 6, -5, 8, -7, 0, 9, -8, 2, 3, -2>>

\* the blocks cover images are made of
CoverBlock(k) ==
    CASE k = 1 -> [dcCoeff |-> 5, acCoeff |-> Cycle(DensePeriod, 63)]
      [] k = 2 -> [dcCoeff |-> -3,
                   acCoeff |-> <<128, 200, -129, 256, 257, -255, 1023,
                                 -1023, -128, 127, -256, 511, 300, -300>>
                                   \o Cycle(DensePeriod, 49)]
      [] k = 3 -> [dcCoeff |-> 0,
                   acCoeff |-> [i \in 1..63 |->
                                   CASE i = 1 -> 3
                                     [] i = 21 -> -17
                                     [] i = 40 -> 1
                                     [] i = 63 -> -2
                                     [] OTHER -> 0]]
      [] k = 4 -> [dcCoeff |-> -700,
                   acCoeff |-> [i \in 1..63 |->
                                   CASE i = 2 -> -1
                                     [] i = 3 -> 6
                                     [] i = 37 -> 90
                                     [] OTHER -> 0]]
      [] OTHER -> Channel

\* width, height, number of components, luma sampling, the SOS table
\* selectors (dcId * 16 + acId per component), whether the file has an APP0
\* segment, and per MCU the blocks in scan order
CoverImages ==
    {[width |-> 8, height |-> 8, n |-> 1, hs |-> 1, vs |-> 1,
      sel |-> <<0>>, app0 |-> TRUE, blocks |-> << <<1>> >>],
     [width |-> 8, height |-> 8, n |-> 1, hs |-> 1, vs |-> 1,
      sel |-> <<0>>, app0 |-> FALSE, blocks |-> << <<2>> >>],
     [width |-> 16, height |-> 8, n |-> 1, hs |-> 1, vs |-> 1,
      sel |-> <<0>>, app0 |-> TRUE, blocks |-> << <<3>>, <<1>> >>],
     [width |-> 8, height |-> 8, n |-> 3, hs |-> 1, vs |-> 1,
      sel |-> <<0, 17, 17>>, app0 |-> TRUE, blocks |-> << <<1, 4, 3>> >>],
     [width |-> 8, height |-> 8, n |-> 3, hs |-> 1, vs |-> 1,
      sel |-> <<0, 0, 0>>, app0 |-> FALSE, blocks |-> << <<1, 4, 3>> >>],
     [width |-> 16, height |-> 16, n |-> 3, hs |-> 2, vs |-> 2,
      sel |-> <<0, 17, 17>>, app0 |-> TRUE,
      blocks |-> << <<1, 3, 5, 4, 1, 2>> >>]}

App0Segment ==
    <<255, 224, 0, 16, 74, 70, 73, 70, 0, 1, 1, 0, 0, 1, 0, 1, 0, 0>>

DqtSegment(id) ==
    <<255, 219, 0, 67, id>> \o [k \in 1..64 |-> k + 10 * id]

RECURSIVE SofComps(_, _)
SofComps(c, k) ==
    IF k > c.n THEN <<>>
    ELSE <<k, IF k = 1 THEN c.hs * 16 + c.vs ELSE 17, IF k = 1 THEN 0 ELSE 1>>
         \o SofComps(c, k + 1)

SofSegment(c) ==
    <<255, 192, 0, 8 + 3 * c.n, 8, c.height \div 256, c.height % 256,
      c.width \div 256, c.width % 256, c.n>> \o SofComps(c, 1)

DhtSegment(class, id, offsets, symbols) ==
    <<255, 196, 0, 19 + offsets[17], class * 16 + id>>
        \o [k \in 1..16 |-> offsets[k + 1] - offsets[k]]
        \o SubSeq(symbols, 1, offsets[17])

RECURSIVE SosComps(_, _)
SosComps(c, k) ==
    IF k > c.n THEN <<>> ELSE <<k, c.sel[k]>> \o SosComps(c, k + 1)

SosSegment(c) ==
    <<255, 218, 0, 6 + 2 * c.n, c.n>> \o SosComps(c, 1) \o <<0, 63, 0>>

\* the segments of the cover file up to the entropy-coded data
CoverFileHeader(c) ==
    <<255, 216>>
        \o (IF c.app0 THEN App0Segment ELSE <<>>)
        \o DqtSegment(0)
        \o (IF c.n > 1 THEN DqtSegment(1) ELSE <<>>)
        \o SofSegment(c)
        \o DhtSegment(0, 0, dcLuminanceOffsets, dcSymbols)
        \o DhtSegment(1, 0, acLuminanceOffsets, acLuminanceSymbols)
        \o (IF c.n > 1
            THEN DhtSegment(0, 1, dcChrominanceOffsets, dcSymbols)
                 \o DhtSegment(1, 1, acChrominanceOffsets, acChrominanceSymbols)
            ELSE <<>>)
        \o SosSegment(c)
        \o <<255, 217>>

\* the MCU the decoder builds from the blocks of one MCU of the cover
CoverMCU(c, blocks) ==
    LET lum == c.hs * c.vs
    IN [luminance |-> [k \in 1..4 |->
                          IF k <= lum THEN CoverBlock(blocks[k]) ELSE Channel],
        chrominance |-> [k \in 1..2 |->
                          IF c.n > 1 THEN CoverBlock(blocks[lum + k])
                          ELSE Channel]]

RECURSIVE SumSeq(_, _)
SumSeq(s, k) ==
    IF k > Len(s) THEN 0 ELSE s[k] + SumSeq(s, k + 1)

\* the capacity counter decodeBlock accumulates over the coded coefficients
CoverBits(MCUVector) ==
    SumSeq([m \in 1..Len(MCUVector) |->
              Cardinality({x \in (1..6) \X (1..63) :
                  countsAsCapacity(
                      (IF x[1] <= 4 THEN MCUVector[m].luminance[x[1]]
                       ELSE MCUVector[m].chrominance[x[1] - 4]).acCoeff[x[2]])})],
           1)

\* the object JPG.__init__ leaves for cover image c
CoverJPG(c) ==
    Bind([m \in 1..Len(c.blocks) |-> CoverMCU(c, c.blocks[m])], LAMBDA v :
       [NewJPG EXCEPT
           !.header = readHeader(Header, CoverFileHeader(c)).header,
           !.MCUVector = v,
           !.Bits = CoverBits(v)])

\* further blocks of input files
InputBlock(k) ==
    CASE k = 6 -> [dcCoeff |-> 5,
                   acCoeff |-> <<3, -1>> \o Repeat(0, 61)]
      [] k = 7 -> [dcCoeff |-> 5,
                   acCoeff |-> <<3, 1024>> \o Repeat(0, 61)]
      [] k = 8 -> [dcCoeff |-> 5,
                   acCoeff |-> Cycle(DensePeriod, 62) \o <<0>>]
      [] k = 9 -> [dcCoeff |-> 5,
                   acCoeff |-> Cycle(DensePeriod, 55) \o Repeat(0, 8)]
      [] OTHER -> CoverBlock(k)

\* an AC table that is not the one of Annex K: EOB, 0/2 and 0/11 in 2 bits,
\* 0/1 in 3 bits
WideAC ==
    generateHuffmanCodes(
        [HuffmanTable EXCEPT
            !.symbols = <<0, 2, 11, 1>> \o Repeat(0, 158),
            !.offsets = <<0, 0, 3>> \o Repeat(4, 14),
            !.set = TRUE])

\* input files: an image as in CoverImages, with
\*   dqt  the DQT segments, each the destination ids of its tables
\*   dht  TRUE when every Huffman table has a DHT segment of its own, FALSE
\*        when one DHT segment holds them all
\*   ac   the AC table of the luminance blocks: "K" (Annex K) or "wide"
\*   base the identifier of the first component in SOF0 and in SOS: 1, or 0
\*        for identifiers that count from zero
InputImages ==
    <<[width |-> 8, height |-> 8, n |-> 1, hs |-> 1, vs |-> 1,
       sel |-> <<0>>, app0 |-> TRUE, blocks |-> << <<1>> >>,
       dqt |-> << <<0>> >>, dht |-> TRUE, ac |-> "K",
       base |-> <<1, 1>>],
      [width |-> 8, height |-> 8, n |-> 1, hs |-> 1, vs |-> 1,
       sel |-> <<0>>, app0 |-> FALSE, blocks |-> << <<6>> >>,
       dqt |-> << <<0>> >>, dht |-> TRUE, ac |-> "wide",
       base |-> <<1, 1>>],
      [width |-> 8, height |-> 8, n |-> 1, hs |-> 1, vs |-> 1,
       sel |-> <<0>>, app0 |-> TRUE, blocks |-> << <<7>> >>,
       dqt |-> << <<0>> >>, dht |-> TRUE, ac |-> "wide",
       base |-> <<1, 1>>],
      [width |-> 8, height |-> 8, n |-> 3, hs |-> 1, vs |-> 1,
       sel |-> <<0, 17, 17>>, app0 |-> TRUE, blocks |-> << <<1, 4, 3>> >>,
       dqt |-> << <<0>>, <<1>> >>, dht |-> TRUE, ac |-> "K",
       base |-> <<1, 1>>],
      [width |-> 8, height |-> 8, n |-> 3, hs |-> 1, vs |-> 1,
       sel |-> <<0, 17, 17>>, app0 |-> TRUE, blocks |-> << <<1, 4, 3>> >>,
       dqt |-> << <<0>>, <<1>> >>, dht |-> FALSE, ac |-> "K",
       base |-> <<1, 1>>],
      [width |-> 8, height |-> 8, n |-> 3, hs |-> 1, vs |-> 1,
       sel |-> <<0, 17, 17>>, app0 |-> FALSE, blocks |-> << <<1, 4, 3>> >>,
       dqt |-> << <<0, 1>> >>, dht |-> TRUE, ac |-> "K",
       base |-> <<1, 1>>],
      [width |-> 8, height |-> 8, n |-> 3, hs |-> 1, vs |-> 1,
       sel |-> <<0, 17, 17>>, app0 |-> TRUE, blocks |-> << <<6, 4, 3>> >>,
       dqt |-> << <<0, 1, 2, 3>> >>, dht |-> TRUE, ac |-> "K",
       base |-> <<1, 1>>],
      [width |-> 8, height |-> 8, n |-> 1, hs |-> 1, vs |-> 1,
       sel |-> <<0>>, app0 |-> TRUE, blocks |-> << <<6>> >>,
       dqt |-> << <<0, 5, 2, 3>> >>, dht |-> TRUE, ac |-> "K",
       base |-> <<1, 1>>],
      [width |-> 8, height |-> 8, n |-> 1, hs |-> 1, vs |-> 1,
       sel |-> <<0>>, app0 |-> TRUE, blocks |-> << <<6>> >>,
       dqt |-> << <<5>> >>, dht |-> TRUE, ac |-> "K",
       base |-> <<1, 1>>],
      [width |-> 16, height |-> 8, n |-> 1, hs |-> 1, vs |-> 1,
       sel |-> <<0>>, app0 |-> FALSE, blocks |-> << <<3>>, <<1>> >>,
       dqt |-> << <<0>> >>, dht |-> TRUE, ac |-> "K",
       base |-> <<1, 1>>],
      [width |-> 8, height |-> 8, n |-> 1, hs |-> 1, vs |-> 1,
       sel |-> <<0>>, app0 |-> TRUE, blocks |-> << <<2>> >>,
       dqt |-> << <<0>> >>, dht |-> FALSE, ac |-> "K",
       base |-> <<1, 1>>],
      [width |-> 8, height |-> 8, n |-> 3, hs |-> 1, vs |-> 1,
       sel |-> <<0, 0, 0>>, app0 |-> TRUE, blocks |-> << <<6, 6, 3>> >>,
       dqt |-> << <<0>>, <<1>> >>, dht |-> TRUE, ac |-> "K",
       base |-> <<1, 1>>],
      [width |-> 8, height |-> 8, n |-> 3, hs |-> 1, vs |-> 1,
       sel |-> <<0, 17, 17>>, app0 |-> TRUE, blocks |-> << <<1, 4, 3>> >>,
       dqt |-> << <<0>>, <<1>> >>, dht |-> TRUE, ac |-> "K",
       base |-> <<0, 0>>],
      [width |-> 8, height |-> 8, n |-> 1, hs |-> 1, vs |-> 1,
       sel |-> <<0>>, app0 |-> TRUE, blocks |-> << <<3>> >>,
       dqt |-> << <<0>> >>, dht |-> TRUE, ac |-> "K",
       base |-> <<0, 0>>],
      [width |-> 8, height |-> 8, n |-> 3, hs |-> 1, vs |-> 1,
       sel |-> <<0, 17, 17>>, app0 |-> TRUE, blocks |-> << <<3, 4, 3>> >>,
       dqt |-> << <<0>>, <<1>> >>, dht |-> TRUE, ac |-> "K",
       base |-> <<0, 1>>],
      [width |-> 8, height |-> 8, n |-> 1, hs |-> 1, vs |-> 1,
       sel |-> <<0>>, app0 |-> TRUE, blocks |-> << <<8>> >>,
       dqt |-> << <<0>> >>, dht |-> TRUE, ac |-> "K",
       base |-> <<1, 1>>],
      [width |-> 8, height |-> 8, n |-> 3, hs |-> 1, vs |-> 1,
       sel |-> <<0, 17, 17>>, app0 |-> TRUE, blocks |-> << <<9, 4, 3>> >>,
       dqt |-> << <<0>>, <<1>> >>, dht |-> TRUE, ac |-> "K",
       base |-> <<1, 1>>],
      [width |-> 16, height |-> 8, n |-> 3, hs |-> 2, vs |-> 1,
       sel |-> <<0, 17, 17>>, app0 |-> TRUE,
       blocks |-> << <<9, 3, 4, 5>> >>,
       dqt |-> << <<0>>, <<1>> >>, dht |-> TRUE, ac |-> "K",
       base |-> <<1, 1>>],
      [width |-> 8, height |-> 16, n |-> 3, hs |-> 1, vs |-> 2,
       sel |-> <<0, 17, 17>>, app0 |-> TRUE,
       blocks |-> << <<3, 9, 5, 4>> >>,
       dqt |-> << <<0>>, <<1>> >>, dht |-> TRUE, ac |-> "K",
       base |-> <<1, 1>>],
      [width |-> 16, height |-> 16, n |-> 3, hs |-> 2, vs |-> 2,
       sel |-> <<0, 17, 17>>, app0 |-> TRUE,
       blocks |-> << <<9, 3, 5, 5, 4, 5>> >>,
       dqt |-> << <<0>>, <<1>> >>, dht |-> TRUE, ac |-> "K",
       base |-> <<1, 1>>]>>

\* the tables ids[k], ... of a DQT segment, each its header byte and its 64
\* entries
RECURSIVE DqtTables(_, _)
DqtTables(ids, k) ==
    IF k > Len(ids) THEN <<>>
    ELSE SubSeq(DqtSegment(ids[k]), 5, 69) \o DqtTables(ids, k + 1)

\* a segment: marker, the two bytes of its length, its content
Segment(marker, content) ==
    <<255, marker, (2 + Len(content)) \div 256, (2 + Len(content)) % 256>>
        \o content

RECURSIVE InputDqt(_, _)
InputDqt(c, k) ==
    IF k > Len(c.dqt) THEN <<>>
    ELSE Segment(219, DqtTables(c.dqt[k], 1)) \o InputDqt(c, k + 1)

\* the Huffman tables of the input file, in the order of their DHT segments
InputTables(c) ==
    << [class |-> 0, id |-> 0, table |-> dcLuminance],
       [class |-> 1, id |-> 0,
        table |-> IF c.ac = "wide" THEN WideAC ELSE acLuminance] >>
    \o (IF c.n > 1
        THEN << [class |-> 0, id |-> 1, table |-> dcChrominance],
                [class |-> 1, id |-> 1, table |-> acChrominance] >>
        ELSE <<>>)

\* one table of a DHT segment: header byte, 16 counts, symbols
DhtTableBytes(t) ==
    SubSeq(DhtSegment(t.class, t.id, t.table.offsets, t.table.symbols), 5,
           21 + t.table.offsets[17])

RECURSIVE InputDht(_, _, _)
InputDht(c, tables, k) ==
    IF k > Len(tables) THEN <<>>
    ELSE IF c.dht
    THEN Segment(196, DhtTableBytes(tables[k])) \o InputDht(c, tables, k + 1)
    ELSE DhtTableBytes(tables[k]) \o InputDht(c, tables, k + 1)

\* the entropy-coded data of the input file: its blocks under its tables
InputScan(c) ==
    makeBitstream(
        [NewJPG EXCEPT
            !.header = [readHeader(Header, CoverFileHeader(c)).header EXCEPT
                           !.acHuffmanTables[1] = InputTables(c)[2].table],
            !.MCUVector = [m \in 1..Len(c.blocks) |->
                [luminance |-> [k \in 1..4 |->
                     IF k <= c.hs * c.vs THEN InputBlock(c.blocks[m][k])
                     ELSE Channel],
                 chrominance |-> [k \in 1..2 |->
                     IF c.n > 1 THEN InputBlock(c.blocks[m][c.hs * c.vs + k])
                     ELSE Channel]]]],
        <<>>).bytes

InputFile(c) ==
    LET from(segment, at, step, first) ==
            [i \in 1..Len(segment) |->
                IF i >= at /\ (i - at) % step = 0 /\ i < at + step * c.n
                THEN segment[i] - 1 + first
                ELSE segment[i]]
    IN
    <<255, 216>>
        \o (IF c.app0 THEN App0Segment ELSE <<>>)
        \o InputDqt(c, 1)
        \o from(SofSegment(c), 11, 3, c.base[1])
        \o (IF c.dht THEN InputDht(c, InputTables(c), 1)
            ELSE Segment(196, InputDht(c, InputTables(c), 1)))
        \o from(SosSegment(c), 6, 2, c.base[2])
        \o InputScan(c)
        \o <<255, 217>>

InputFiles ==
    [f \in 1..Len(InputImages) |-> InputFile(InputImages[f])]

\* a secret file: its path and its bytes
SecretFiles ==
    <<[path |-> <<109>>, data |-> <<65>>],
      [path |-> <<109>>, data |-> <<>>],
      [path |-> <<100, 47, 109, 115, 46, 116, 120, 116>>,
       data |-> <<65, 47, 255>>]>>

\* the marker of a segment present in the file handed to JPG(); 0 for none
InsertedMarkers ==
    {0, 194}

\* the file with an empty segment of marker m right after SOI
insertSegment(file, m) ==
    IF m = 0 THEN file
    ELSE SubSeq(file, 1, 2) \o <<255, m, 0, 2>> \o SubSeq(file, 3, Len(file))

MaxCalls ==
    4

(***************************************************************************)
(* The state machine.                                                      *)
(***************************************************************************)
constructed(j) ==
    j.currMCU >= 0

Init ==
    /\ \E c \in CoverImages :
          jpg = [cover |-> CoverJPG(c), stego |-> NoJPG]
    /\ before = jpg
    /\ frame = <<>>
    /\ stegoFile = <<>>
    /\ loaded = <<>>
    /\ outFile = NoFile
    /\ err = ""
    /\ hist = <<>>
    /\ unit = <<>>

Call(name, o, arg) ==
    /\ err = ""
    /\ Len(hist) < MaxCalls
    /\ hist' = Append(hist, [op |-> name, obj |-> o, arg |-> arg])
    /\ before' = jpg
    /\ unit' = unit

\* JPG.injectFile on the cover object
InjectFile(f) ==
    /\ constructed(jpg.cover)
    /\ Call("injectFile", "cover", f)
    /\ \E r \in {injectFile(jpg.cover, SecretFiles[f].path,
                           SecretFiles[f].data)} :
          /\ jpg' = [jpg EXCEPT !.cover = r.jpg]
          /\ frame' = r.file_bytes
          /\ err' = r.err
    /\ UNCHANGED <<stegoFile, loaded, outFile>>

\* JPG.saveJPGData on the cover object
SaveJPGData ==
    /\ constructed(jpg.cover)
    /\ Call("saveJPGData", "cover", 0)
    /\ \E r \in {saveJPGData(jpg.cover)} :
          /\ jpg' = [jpg EXCEPT !.cover = r.jpg]
          /\ stegoFile' = IF r.written THEN r.bytes ELSE stegoFile
          /\ err' = r.err
    /\ UNCHANGED <<frame, loaded, outFile>>

\* JPG(file) in the retrieving run, on the written file
Construct(m) ==
    /\ stegoFile # <<>>
    /\ ~constructed(jpg.stego)
    /\ Call("JPG", "stego", m)
    /\ \E r \in {JPG(insertSegment(stegoFile, m))} :
          /\ jpg' = [jpg EXCEPT !.stego = r.jpg]
          /\ loaded' = insertSegment(stegoFile, m)
          /\ err' = r.err
    /\ UNCHANGED <<frame, stegoFile, outFile>>

\* JPG.retrieveHiddenFile on object o
RetrieveHiddenFile(o) ==
    /\ constructed(jpg[o])
    /\ Call("retrieveHiddenFile", o, 0)
    /\ \E r \in {retrieveHiddenFile(jpg[o])} :
          /\ jpg' = [jpg EXCEPT ![o] = r.jpg]
          /\ outFile' = IF r.err = "" THEN r.file ELSE outFile
          /\ err' = r.err
    /\ UNCHANGED <<frame, stegoFile, loaded>>

\* JPG(file) in the embedding run, on input file f
LoadCover(f) ==
    /\ ~constructed(jpg.cover)
    /\ Call("JPG", "cover", f)
    /\ \E r \in {JPG(InputFiles[f])} :
          /\ jpg' = [jpg EXCEPT !.cover = r.jpg]
          /\ err' = r.err
    /\ UNCHANGED <<frame, stegoFile, loaded, outFile>>

Next ==
    \/ \E f \in 1..Len(SecretFiles) : InjectFile(f)
    \/ SaveJPGData
    \/ \E m \in InsertedMarkers : Construct(m)
    \/ \E o \in {"cover", "stego"} : RetrieveHiddenFile(o)

Spec ==
    Init /\ [][Next]_vars

\* the runs that begin with the input file instead of the decoded cover
InitFile ==
    /\ jpg = [cover |-> NoJPG, stego |-> NoJPG]
    /\ before = jpg
    /\ frame = <<>>
    /\ stegoFile = <<>>
    /\ loaded = <<>>
    /\ outFile = NoFile
    /\ err = ""
    /\ hist = <<>>
    /\ unit = <<>>

NextFile ==
    \/ \E f \in 1..Len(InputFiles) : LoadCover(f)
    \/ \E f \in 1..Len(SecretFiles) : InjectFile(f)
    \/ SaveJPGData
    \/ \E m \in InsertedMarkers : Construct(m)
    \/ \E o \in {"cover", "stego"} : RetrieveHiddenFile(o)

SpecFile ==
    InitFile /\ [][NextFile]_vars

(***************************************************************************)
(* Properties.  They read the calls made so far (hist), the objects as     *)
(* they were when the last call began (before) and as they are now (jpg).  *)
(***************************************************************************)
lastCall ==
    hist[Len(hist)]

\* the last call was saveJPGData and it wrote the file
Saved ==
    /\ hist # <<>>
    /\ lastCall.op = "saveJPGData"
    /\ err = ""

\* the last call was injectFile
Embedded ==
    hist # <<>> /\ lastCall.op = "injectFile"

\* the positions of the AC coefficients of an object: MCU, block (1..4 the
\* luminance blocks, 5..6 the chrominance blocks), index
Positions(j) ==
    (1..Len(j.MCUVector)) \X (1..6) \X (1..63)

coeffAt(j, p) ==
    LET mcu == j.MCUVector[p[1]]
    IN (IF p[2] <= 4 THEN mcu.luminance[p[2]]
        ELSE mcu.chrominance[p[2] - 4]).acCoeff[p[3]]

Abs(x) ==
    IF x < 0 THEN -x ELSE x

\* inject, save, construct from the written file, retrieve: the calls of an
\* embedding run followed by a retrieving run, or the first of them
RoundTripCalls ==
    <<[op |-> "injectFile", obj |-> "cover"],
      [op |-> "saveJPGData", obj |-> "cover", arg |-> 0],
      [op |-> "JPG", obj |-> "stego", arg |-> 0],
      [op |-> "retrieveHiddenFile", obj |-> "stego", arg |-> 0]>>

InRoundTrip ==
    /\ hist # <<>>
    /\ Len(hist) <= Len(RoundTripCalls)
    /\ hist[1].op = "injectFile"
    /\ \A k \in 2..Len(hist) : hist[k] = RoundTripCalls[k]

\* the frame of the first injectFile fits the capacity of the cover
FirstFrameFits ==
    8 * Len(frame) <= jpg.cover.Bits

\* C1: a run that embeds a file whose frame fits a freshly decoded cover,
\* saves, constructs a new object from the written file and retrieves does
\* not fail, and the file it writes has the bytes and the basename of the
\* embedded file.
C1_RoundTripRecoversFile ==
    (InRoundTrip /\ FirstFrameFits)
        => /\ err = ""
           /\ Len(hist) = 4
                => /\ outFile.written
                   /\ outFile.data = SecretFiles[hist[1].arg].data
                   /\ outFile.name = basename(SecretFiles[hist[1].arg].path)

\* the round trip of a file that is not empty, on a grey cover in which the
\* embedding turned a coefficient of 128 into -128, has run to its end and
\* did not recover the file
C1_RoundTripLosesFile ==
    /\ InRoundTrip /\ FirstFrameFits /\ Len(hist) = 4
    /\ SecretFiles[hist[1].arg].data # <<>>
    /\ jpg.cover.header.startOfFrame.numOfComponents = 1
    /\ coeffAt(jpg.cover, <<1, 1, 1>>) = -128
    /\ \/ err # ""
       \/ outFile.data # SecretFiles[hist[1].arg].data

\* C2: every coefficient injectFile has changed has the sign it had, differs
\* from its old value in bit 0 only, and differs in magnitude by 1 at most.
C2_StoredValueKeepsSignAndMagnitude ==
    Embedded
        => \A p \in Positions(before.cover) :
              LET a == coeffAt(before.cover, p)
                  b == coeffAt(jpg.cover, p)
              IN a # b
                    => /\ (a > 0) = (b > 0)
                       /\ (a < 0) = (b < 0)
                       /\ a \div 2 = b \div 2
                       /\ Abs(Abs(a) - Abs(b)) <= 1

\* a coefficient of magnitude 128 or more was given a value of the other sign
C2_SignLost ==
    /\ Embedded
    /\ \E p \in Positions(before.cover) :
          /\ coeffAt(before.cover, p) >= 128
          /\ coeffAt(jpg.cover, p) < 0

\* C3: after injectFile, every AC coefficient whose value was 0 or 1 when the
\* call began has the value it had.
C3_ZeroAndOneUntouched ==
    Embedded
        => \A p \in Positions(before.cover) :
              coeffAt(before.cover, p) \in {0, 1}
                 => coeffAt(jpg.cover, p) = coeffAt(before.cover, p)

\* injectFile ended well, and in one block it went past a coefficient of
\* value 1 and a coefficient of value 0 and changed a coefficient after them
C3_WalkedPastZeroAndOne ==
    /\ Embedded /\ err = ""
    /\ \E p \in Positions(before.cover) :
          /\ coeffAt(before.cover, p) # coeffAt(jpg.cover, p)
          /\ \E i, k \in 1..(p[3] - 1) :
                /\ coeffAt(before.cover, <<p[1], p[2], i>>) = 1
                /\ coeffAt(before.cover, <<p[1], p[2], k>>) = 0

\* C4, as claimed: after injectFile, every AC coefficient whose value was -1
\* when the call began is still -1.
C4_MinusOneUntouched ==
    Embedded
        => \A p \in Positions(before.cover) :
              coeffAt(before.cover, p) = -1 => coeffAt(jpg.cover, p) = -1

\* C4, amended: -1 is not skipped.  After injectFile, an AC coefficient whose
\* value was -1 when the call began is -1 or -2.
C4_MinusOneCarriesABit ==
    Embedded
        => \A p \in Positions(before.cover) :
              coeffAt(before.cover, p) = -1
                 => coeffAt(jpg.cover, p) \in {-1, -2}

\* injectFile ended well and turned a coefficient of -1 into -2
C4_MinusOneBecameMinusTwo ==
    /\ Embedded /\ err = ""
    /\ \E p \in Positions(before.cover) :
          coeffAt(before.cover, p) = -1 /\ coeffAt(jpg.cover, p) = -2

\* C5: an injectFile whose frame has more bits than the capacity counter
\* fails with the capacity error, and leaves the object (its MCU sequence and
\* its cursor with it) as it was.
C5_CapacityCheckedBeforeMutation ==
    (Embedded /\ 8 * Len(frame) > before.cover.Bits)
        => /\ err = CannotBeInjected
           /\ jpg.cover = before.cover

\* a frame too long for the cover was refused on an object whose cursor an
\* earlier injectFile had moved
C5_RefusedAfterEarlierEmbed ==
    /\ Len(hist) = 2 /\ hist[1].op = "injectFile" /\ Embedded
    /\ 8 * Len(frame) > before.cover.Bits
    /\ before.cover.Coefficient > 0
    /\ err = CannotBeInjected

\* the value the extractor rebuilds from the four bytes of the prefix: every
\* bit read shifts the value left
prefixValue(bytes) ==
    ((bytes[1] * 256 + bytes[2]) * 256 + bytes[3]) * 256 + bytes[4]

\* C6: the frame injectFile builds is 4 length bytes, the bytes of the file,
\* 0x2F and the basename; the value of the prefix is the number of bytes
\* after it; and a retrieving run that ends well has read that many bytes.
C6_FrameLayout ==
    (hist # <<>> /\ hist[1].op = "injectFile")
        => LET f == SecretFiles[IF Embedded THEN lastCall.arg
                                ELSE hist[1].arg]
           IN /\ Embedded
                   => /\ Len(frame) >= 4
                      /\ SubSeq(frame, 5, Len(frame))
                            = f.data \o <<47>> \o basename(f.path)
                      /\ prefixValue(frame)
                            = Len(f.data) + 1 + Len(basename(f.path))
              /\ (InRoundTrip /\ Len(hist) = 4 /\ err = "")
                   => Len(outFile.data) + 1 + Len(outFile.name)
                         = prefixValue(frame)

\* a frame of a file with a directory in its path was built, embedded, and
\* read back by a retrieving run
C6_FrameReadBack ==
    /\ InRoundTrip /\ Len(hist) = 4 /\ err = ""
    /\ Len(basename(SecretFiles[hist[1].arg].path))
          < Len(SecretFiles[hist[1].arg].path)
    /\ prefixValue(frame) = 10

\* the length the prefix of the frame stands for
frameLength ==
    Len(frame) - 4

\* C7, as claimed: the first byte of the frame is the least significant byte
\* of the length and the fourth the most significant.
C7_PrefixLeastSignificantFirst ==
    Embedded
        => /\ frame[1] = frameLength % 256
           /\ frame[4] = (frameLength \div Pow2(24)) % 256

\* C7, amended: the prefix is most significant byte first.
C7_PrefixMostSignificantFirst ==
    Embedded
        => /\ frame[1] = (frameLength \div Pow2(24)) % 256
           /\ frame[2] = (frameLength \div Pow2(16)) % 256
           /\ frame[3] = (frameLength \div Pow2(8)) % 256
           /\ frame[4] = frameLength % 256

\* a frame of length 10 was built: it starts with 0, 0, 0, 0x0A
C7_FrameOfLengthTen ==
    /\ Embedded
    /\ frameLength = 10
    /\ SubSeq(frame, 1, 4) = <<0, 0, 0, 10>>

\* the object with its cursor where the constructor puts it
rewound(j) ==
    [j EXCEPT !.currMCU = NewJPG.currMCU,
              !.ChannelNumber = NewJPG.ChannelNumber,
              !.ChannelType = NewJPG.ChannelType,
              !.Coefficient = NewJPG.Coefficient]

\* C8: retrieveHiddenFile ends as it would have ended with the cursor at the
\* first AC coefficient of the first MCU, whatever calls were made before.
C8_ExtractionStartsAtFirstCoefficient ==
    (hist # <<>> /\ lastCall.op = "retrieveHiddenFile")
        => LET r == retrieveHiddenFile(rewound(before[lastCall.obj]))
           IN /\ err = r.err
              /\ r.err = "" => outFile = r.file

\* a file was embedded in a cover of small coefficients and retrieved from
\* the same object right away, and the retrieval did not give the file
C8_EmbeddedFrameNotRead ==
    /\ Len(hist) = 2 /\ hist[1].op = "injectFile"
    /\ lastCall = [op |-> "retrieveHiddenFile", obj |-> "cover", arg |-> 0]
    /\ \A p \in Positions(jpg.cover) : Abs(coeffAt(jpg.cover, p)) < 128
    /\ SecretFiles[hist[1].arg].data # <<>>
    /\ retrieveHiddenFile(rewound(before.cover)).file.data
          = SecretFiles[hist[1].arg].data
    /\ err # ""

\* C9: constructing an object from a file that has a segment of an
\* unsupported marker before SOS fails with the unsupported marker error.
C9_UnsupportedMarkerIsFatal ==
    (hist # <<>> /\ lastCall.op = "JPG" /\ lastCall.arg \in unsupportedMarkers)
        => err = UnsupportedMarker

\* a file with a SOF2 segment before its SOF0 was read and decoded with no
\* error at all
C9_UnsupportedMarkerSkipped ==
    /\ hist # <<>> /\ lastCall.op = "JPG" /\ lastCall.arg = 194
    /\ Slice(loaded, 2, 4) = <<255, 194>>
    /\ err = ""
    /\ jpg.stego.MCUVector # <<>>

\* the fields of the header but the Huffman tables and the offset of the
\* entropy-coded data in the file
headerFields(header) ==
    [startOfFrame |-> header.startOfFrame,
     components |-> header.components,
     restartInterval |-> header.restartInterval,
     quantizationTables |-> header.quantizationTables,
     app0Marker |-> header.app0Marker,
     startOfSelection |-> header.startOfSelection,
     endOfSeleciton |-> header.endOfSeleciton,
     successiveApproxHigh |-> header.successiveApproxHigh,
     successiveApproxLow |-> header.successiveApproxLow]

\* saveJPGData on a freshly decoded cover, then JPG on the written file
SavedAndReloaded ==
    /\ Len(hist) = 2
    /\ hist[1] = RoundTripCalls[2]
    /\ hist[2] = RoundTripCalls[3]

\* C10: the object constructed from the file saveJPGData wrote for a freshly
\* decoded cover has the MCU sequence and the header fields of the cover.
C10_SaveThenDecodeIsIdentity ==
    SavedAndReloaded
        => /\ err = ""
           /\ jpg.stego.MCUVector = jpg.cover.MCUVector
           /\ headerFields(jpg.stego.header) = headerFields(jpg.cover.header)

\* the reloaded object has the header fields of the cover, whose scan has
\* every component on Huffman tables 0, and another MCU sequence
C10_OtherCoefficientsDecoded ==
    /\ SavedAndReloaded
    /\ jpg.cover.header.startOfFrame.numOfComponents = 3
    /\ \A c \in 0..2 : At(jpg.cover.header.components, c).acHuffmanTableId = 0
    /\ \/ err # ""
       \/ jpg.stego.MCUVector # jpg.cover.MCUVector

(***************************************************************************)
(* writeBlock and decodeBlock applied to one block under the tables of     *)
(* saveJPGData.  unit is the record [stage, block, isChrominance, err,     *)
(* bytes, decoded].                                                        *)
(***************************************************************************)
\* the objects and files of the program, which these runs leave alone
program ==
    <<jpg, frame, stegoFile, loaded, outFile, err, hist, before>>

NoProgram ==
    /\ jpg = [cover |-> NoJPG, stego |-> NoJPG]
    /\ before = jpg
    /\ frame = <<>>
    /\ stegoFile = <<>>
    /\ loaded = <<>>
    /\ outFile = NoFile
    /\ err = ""
    /\ hist = <<>>

\* a block with the value ac at the AC indices first and last
SparseBlock(dc, first, last, ac) ==
    [dcCoeff |-> dc,
     acCoeff |-> [k \in 1..63 |->
                     IF k - 1 = first \/ k - 1 = last THEN ac ELSE 0]]

\* BlockDc: DC values of up to 11 bits; BlockAc: AC values of up to 10 bits;
\* BlockAt: AC indices of the first and of the last non-zero coefficient
BlockInputs ==
    LET BlockDc == {0, -1, 1024, -2047, 2047}
        BlockAc == {1, -1, 2, -512, 1023, -1023}
        BlockAt == {0, 15, 16, 17, 33, 61, 62}
    IN {SparseBlock(dc, p[1], p[2], ac) :
           dc \in BlockDc, p \in {q \in BlockAt \X BlockAt : q[1] <= q[2]},
           ac \in BlockAc}
       \cup {[dcCoeff |-> dc, acCoeff |-> Repeat(0, 63)] : dc \in BlockDc}
       \cup {CoverBlock(k) : k \in 1..4}

InitBlock ==
    /\ NoProgram
    /\ \E b \in BlockInputs, c \in BOOLEAN :
          unit = [stage |-> "input", block |-> b, isChrominance |-> c,
                  err |-> "", bytes |-> <<>>, decoded |-> Channel]

\* JPG.writeBlock on a fresh BitWriter, then BitWriter.add (makeBitstream)
WriteBlock ==
    /\ unit.stage = "input"
    /\ \E r \in {writeBlock(standardTables(Header), unit.block, BitWriter,
                             unit.isChrominance)} :
          unit' = [unit EXCEPT !.stage = "written", !.err = r.err,
                               !.bytes = add(r.writer, <<>>)]
    /\ UNCHANGED program

\* JPG.decodeBlock on the bytes written, with EOI after them, unstuffed as
\* in decodeBitstream
DecodeBlock ==
    /\ unit.stage = "written"
    /\ unit.err = ""
    /\ \E r \in {decodeBlock(
                     Channel,
                     BitReader(unstuff(unit.bytes \o <<255, 217>>,
                                       0).bytestream),
                     IF unit.isChrominance THEN dcChrominance
                     ELSE dcLuminance,
                     IF unit.isChrominance THEN acChrominance
                     ELSE acLuminance,
                     0)} :
          unit' = [unit EXCEPT !.stage = "decoded", !.err = r.err,
                               !.decoded = r.channel]
    /\ UNCHANGED program

NextBlock ==
    \/ WriteBlock
    \/ DecodeBlock

SpecBlock ==
    InitBlock /\ [][NextBlock]_vars

\* C15: a block whose DC value has at most 11 bits and whose AC values have
\* at most 10 bits, written by writeBlock and decoded by decodeBlock under
\* the tables of saveJPGData, comes back with the same DC value and the same
\* 63 AC values, wherever its last non-zero coefficient is (AC index 62,
\* none at all, after a run of 16 zeros or more).
C15_BlockRoundTrip ==
    /\ unit.stage = "written" => unit.err = ""
    /\ unit.stage = "decoded" =>
          /\ unit.err = ""
          /\ unit.decoded = unit.block

\* decoded: a block with DC -2047 and the AC value -1023 at the indices 0 and
\* 62, 61 zeros between them
C15_DecodedLastAt62 ==
    /\ unit.stage = "decoded"
    /\ unit.block = SparseBlock(-2047, 0, 62, -1023)

(***************************************************************************)
(* readNextSymbol applied to the first bits of a byte stream under one     *)
(* Huffman table.  unit is the record [stage, table, data, err, symbol].   *)
(***************************************************************************)
\* the first two bytes of the stream: all zeros, all ones, mixed
InitSymbol ==
    /\ NoProgram
    /\ \E t \in {dcLuminance, dcChrominance, acLuminance, acChrominance,
                WideAC},
          b1, b2 \in {0, 85, 170, 240, 254, 255} :
          unit = [stage |-> "input", table |-> t, data |-> <<b1, b2, 0>>,
                  err |-> "", symbol |-> -1]

\* JPG.readNextSymbol on a fresh BitReader
ReadNextSymbol ==
    /\ unit.stage = "input"
    /\ \E r \in {readNextSymbol(BitReader(unit.data), unit.table)} :
          unit' = [unit EXCEPT !.stage = "read", !.err = r.err,
                               !.symbol = r.symbol]
    /\ UNCHANGED program

SpecSymbol ==
    InitSymbol /\ [][ReadNextSymbol]_vars

\* the indices of the codes of length len of table t that are the first len
\* bits of the 16 bits b1 b2
codesMatching(t, b1, b2, len) ==
    {i \in At(t.offsets, len - 1) .. (At(t.offsets, len) - 1) :
        At(t.codes, i) = (b1 * 256 + b2) \div Pow2(16 - len)}

\* no code of the table, of any length 1..16, begins the stream
Unmatched ==
    \A len \in 1..16 :
        codesMatching(unit.table, unit.data[1], unit.data[2], len) = {}

\* C19: when the first 16 bits of the stream begin with no code of the
\* table, of any length 1..16, readNextSymbol ends with an error and
\* returns no symbol.
C19_UnmatchedIsFatal ==
    (unit.stage = "read" /\ Unmatched) => unit.err # ""

\* readNextSymbol read 16 one bits under the DC luminance table of Annex K,
\* whose longest code has 9 bits, and returned the first symbol of the table
C19_SymbolForSixteenOnes ==
    /\ unit.stage = "read"
    /\ unit.table = dcLuminance
    /\ unit.data = <<255, 255, 0>>
    /\ Unmatched
    /\ unit.err = ""
    /\ unit.symbol = At(dcLuminance.symbols, 0)

(***************************************************************************)
(* The walker alone: findCoeff and findCoeffExtract called again and again *)
(* on a cover object as JPG() left it.  unit is the sequence of the        *)
(* positions <<mcu, ch, channel, idx>> returned or read so far.            *)
(***************************************************************************)
\* JPG.findCoeff; the position is that of the tuple returned
FindCoeff ==
    /\ err = ""
    /\ \E r \in {findCoeff(jpg.cover)} :
          /\ jpg' = [jpg EXCEPT !.cover = r.jpg]
          /\ err' = r.err
          /\ unit' = IF r.err # "" THEN unit
                     ELSE Append(unit, <<r.tup.mcu, r.tup.ch, r.tup.channel,
                                         r.tup.idx>>)
    /\ UNCHANGED <<frame, stegoFile, loaded, outFile, hist, before>>

\* JPG.findCoeffExtract, which returns the value only; the position is that
\* of the cursor when the call began
FindCoeffExtract ==
    /\ err = ""
    /\ \E r \in {findCoeffExtract(jpg.cover)} :
          /\ jpg' = [jpg EXCEPT !.cover = r.jpg]
          /\ err' = r.err
          /\ unit' = IF r.err # "" THEN unit
                     ELSE Append(unit, <<jpg.cover.currMCU,
                                         jpg.cover.ChannelType,
                                         jpg.cover.ChannelNumber,
                                         jpg.cover.Coefficient>>)
    /\ UNCHANGED <<frame, stegoFile, loaded, outFile, hist, before>>

NextWalk ==
    \/ FindCoeff
    \/ FindCoeffExtract

SpecWalk ==
    Init /\ [][NextWalk]_vars

\* the blocks of one MCU: hSamp * vSamp of luminance, two of chrominance
blocksPerMCU(j) ==
    luminanceBlocks(j.header) + 2

\* the number of positions of the object
positions(j) ==
    Len(j.MCUVector) * blocksPerMCU(j) * 63

\* the p-th position (p from 0) in lexicographic order: MCU, luminance
\* before chrominance, channel, AC index
positionAt(j, p) ==
    LET b == (p \div 63) % blocksPerMCU(j)
    IN <<p \div (63 * blocksPerMCU(j)),
         b < luminanceBlocks(j.header),
         IF b < luminanceBlocks(j.header) THEN b
         ELSE b - luminanceBlocks(j.header),
         p % 63>>

\* C20: from the cursor JPG() leaves, the calls of findCoeff (and of
\* findCoeffExtract) visit the positions (MCU, class, channel, AC index) in
\* lexicographic order, each once: MCUs in the order decoded, in an MCU the
\* hSamp * vSamp luminance channels, then the chrominance channels 0 and 1,
\* in a channel the AC indices 0..62; the call after the last position, and
\* no call before it, raises the out-of-range error.
C20_WalkOrder ==
    /\ Len(unit) <= positions(jpg.cover)
    /\ \A p \in 1..Len(unit) : unit[p] = positionAt(jpg.cover, p - 1)
    /\ err # "" => err = OutOfRange /\ Len(unit) = positions(jpg.cover)
    /\ Len(unit) = positions(jpg.cover) =>
          findCoeff(jpg.cover).err = OutOfRange

\* the walk through the image of one MCU with four luminance blocks ended
\* with the error, after 6 * 63 positions
C20_WalkedOffTheEnd ==
    /\ err = OutOfRange
    /\ luminanceBlocks(jpg.cover.header) = 4
    /\ Len(unit) = 378
    /\ unit[253] = <<0, FALSE, 0, 0>>

(***************************************************************************)
(* The container saveJPGData writes.  The reference tables are those of    *)
(* ITU-T T.81 Annex K.3.3 (tables K.3 to K.6): BITS, the number of codes   *)
(* of each length 1..16, and HUFFVAL, the symbols in code order.           *)
(***************************************************************************)
AnnexKBits(class, id) ==
    CASE class = 0 /\ id = 0 ->
          <<0, 1, 5, 1, 1, 1, 1, 1, 1, 0, 0, 0, 0, 0, 0, 0>>
      [] class = 0 /\ id = 1 ->
          <<0, 3, 1, 1, 1, 1, 1, 1, 1, 1, 1, 0, 0, 0, 0, 0>>
      [] class = 1 /\ id = 0 ->
          <<0, 2, 1, 3, 3, 2, 4, 3, 5, 5, 4, 4, 0, 0, 1, 125>>
      [] class = 1 /\ id = 1 ->
          <<0, 2, 1, 2, 4, 4, 3, 4, 7, 5, 4, 4, 0, 1, 2, 119>>

AnnexKValues(class, id) ==
    CASE class = 0 -> <<0, 1, 2, 3, 4, 5, 6, 7, 8, 9, 10, 11>>
      [] class = 1 /\ id = 0 ->
        <<
          1, 2, 3, 0, 4, 17, 5, 18, 33, 49, 65, 6, 19, 81, 97, 7, 34, 113,
          20, 50, 129, 145, 161, 8, 35, 66, 177, 193, 21, 82, 209, 240, 36,
          51, 98, 114, 130, 9, 10, 22, 23, 24, 25, 26, 37, 38, 39, 40, 41,
          42, 52, 53, 54, 55, 56, 57, 58, 67, 68, 69, 70, 71, 72, 73, 74,
          83, 84, 85, 86, 87, 88, 89, 90, 99, 100, 101, 102, 103, 104, 105,
          106, 115, 116, 117, 118, 119, 120, 121, 122, 131, 132, 133, 134,
          135, 136, 137, 138, 146, 147, 148, 149, 150, 151, 152, 153, 154,
          162, 163, 164, 165, 166, 167, 168, 169, 170, 178, 179, 180, 181,
          182, 183, 184, 185, 186, 194, 195, 196, 197, 198, 199, 200, 201,
          202, 210, 211, 212, 213, 214, 215, 216, 217, 218, 225, 226, 227,
          228, 229, 230, 231, 232, 233, 234, 241, 242, 243, 244, 245, 246,
          247, 248, 249, 250>>
      [] class = 1 /\ id = 1 ->
        <<
          0, 1, 2, 3, 17, 4, 5, 33, 49, 6, 18, 65, 81, 7, 97, 113, 19, 34,
          50, 129, 8, 20, 66, 145, 161, 177, 193, 9, 35, 51, 82, 240, 21,
          98, 114, 209, 10, 22, 36, 52, 225, 37, 241, 23, 24, 25, 26, 38,
          39, 40, 41, 42, 53, 54, 55, 56, 57, 58, 67, 68, 69, 70, 71, 72,
          73, 74, 83, 84, 85, 86, 87, 88, 89, 90, 99, 100, 101, 102, 103,
          104, 105, 106, 115, 116, 117, 118, 119, 120, 121, 122, 130, 131,
          132, 133, 134, 135, 136, 137, 138, 146, 147, 148, 149, 150, 151,
          152, 153, 154, 162, 163, 164, 165, 166, 167, 168, 169, 170, 178,
          179, 180, 181, 182, 183, 184, 185, 186, 194, 195, 196, 197, 198,
          199, 200, 201, 202, 210, 211, 212, 213, 214, 215, 216, 217, 218,
          226, 227, 228, 229, 230, 231, 232, 233, 234, 242, 243, 244, 245,
          246, 247, 248, 249, 250>>

\* a DHT segment with one table of Annex K; Segment computes the length
\* field from the content
AnnexKSegment(class, id) ==
    Segment(196, <<class * 16 + id>> \o AnnexKBits(class, id)
                     \o AnnexKValues(class, id))

\* DC luminance, DC chrominance, AC luminance, AC chrominance
AnnexKDht ==
    AnnexKSegment(0, 0) \o AnnexKSegment(0, 1)
        \o AnnexKSegment(1, 0) \o AnnexKSegment(1, 1)

\* the file has the bytes part from Python index `at` on
HasAt(file, at, part) ==
    /\ at + Len(part) <= Len(file)
    /\ Slice(file, at, at + Len(part)) = part

\* the lengths of what fillHeaderBytes writes before the DHT segments, the
\* DQT part taken as the bytes the header holds
app0Length(header) ==
    IF Len(header.app0Marker) > 0 THEN 2 + Len(header.app0Marker) ELSE 0

sofLength(header) ==
    10 + 3 * header.startOfFrame.numOfComponents

dhtStart(header) ==
    2 + app0Length(header) + Len(header.quantizationTablesData)
      + sofLength(header)

\* the input file the cover object was constructed from
inputOfRun ==
    InputImages[hist[1].arg]

\* C11: whatever Huffman tables the input file had, the file saveJPGData
\* writes carries, right after its SOF0 segment, four DHT segments (DC
\* luminance, DC chrominance, AC luminance, AC chrominance) with the counts
\* and symbols of Annex K.3.3, each with a length field equal to the bytes
\* of the segment, and the SOS marker follows the fourth.
C11_DhtSegmentsAreAnnexK ==
    stegoFile # <<>> =>
        /\ HasAt(stegoFile, dhtStart(jpg.cover.header), AnnexKDht)
        /\ HasAt(stegoFile, dhtStart(jpg.cover.header) + Len(AnnexKDht),
                 <<255, 218>>)

\* a file was written from an input whose AC table is not the one of Annex K
C11_SavedFromOtherTables ==
    /\ stegoFile # <<>>
    /\ inputOfRun.ac = "wide"
    /\ lastCall.op = "saveJPGData"

\* every 0xFF of the bytes is followed by 0x00
Stuffed(bytes) ==
    \A k \in 1..Len(bytes) :
        bytes[k] = 255 => k < Len(bytes) /\ bytes[k + 1] = 0

\* what precedes the entropy-coded data in the file written from the input
\* image c by an object with this header
writtenHeader(c, header) ==
    <<255, 216>>
        \o (IF c.app0 THEN App0Segment ELSE <<>>)
        \o header.quantizationTablesData
        \o SofSegment(c)
        \o AnnexKDht
        \o SosSegment(c)

\* the bytes of the written file between its header and its last two bytes
writtenScan(c, header) ==
    Slice(stegoFile, Len(writtenHeader(c, header)), Len(stegoFile) - 2)

\* C12: the written file is SOI, the APP0 segment when (and only when) the
\* input had one, the DQT bytes, the SOF0 segment, the four DHT segments,
\* the SOS segment, the byte-stuffed entropy-coded data and EOI, in this
\* order, and the file ends with that EOI.
C12_FileLayout ==
    stegoFile # <<>> =>
        /\ HasAt(stegoFile, 0, writtenHeader(inputOfRun, jpg.cover.header))
        /\ Len(stegoFile)
              >= Len(writtenHeader(inputOfRun, jpg.cover.header)) + 2
        /\ Stuffed(writtenScan(inputOfRun, jpg.cover.header))
        /\ HasAt(stegoFile, Len(stegoFile) - 2, <<255, 217>>)

\* a file written from an input without APP0 segment, with a stuffed 0xFF in
\* its entropy-coded data
C12_WrittenWithoutApp0 ==
    /\ Saved
    /\ stegoFile # <<>>
    /\ ~inputOfRun.app0
    /\ \E k \in 1..Len(writtenScan(inputOfRun, jpg.cover.header)) :
          writtenScan(inputOfRun, jpg.cover.header)[k] = 255

\* C13: every DQT segment of the input file, whatever its declared length
\* and the number of tables in it, is in the written file byte for byte and
\* in the order read (length field included), right after SOI and APP0.
C13_DqtSegmentsPreserved ==
    stegoFile # <<>> =>
        HasAt(stegoFile, 2 + app0Length(jpg.cover.header),
              InputDqt(inputOfRun, 1) \o <<255, 192>>)

\* the input had one DQT segment of 262 bytes with four tables; the written
\* file has a DQT segment that declares 262 bytes and holds four
C13_LongDqtCut ==
    /\ Saved
    /\ stegoFile # <<>>
    /\ inputOfRun.dqt = << <<0, 1, 2, 3>> >>
    /\ HasAt(stegoFile, 2 + app0Length(jpg.cover.header),
             <<255, 219, 1, 6, 0, 1, 2, 3, 255, 192>>)

\* C14: a call that fails (reading the header, the capacity check, the
\* walker running off the end, a symbol without code while re-encoding)
\* writes no file, and a file is written only whole: by a call that ends
\* without error, with EOI as its last bytes.
C14_NoFileOnFailure ==
    [][/\ err' # "" => stegoFile' = stegoFile
       /\ stegoFile' # stegoFile =>
             /\ err' = ""
             /\ HasAt(stegoFile', Len(stegoFile') - 2, <<255, 217>>)]_vars

\* saveJPGData failed on a symbol without code, after the header bytes were
\* assembled, and no file exists
C14_ReencodingFailed ==
    /\ hist # <<>>
    /\ lastCall.op = "saveJPGData"
    /\ err = CodeNotFound
    /\ stegoFile = <<>>

\* C16: the tables saveJPGData writes with have a code for every symbol the
\* encoder emits: whatever MCU sequence JPG() decoded from a file it
\* accepted, and whatever injectFile made of it, saveJPGData never fails
\* for want of a code.
C16_EverySymbolHasCode ==
    (hist # <<>> /\ lastCall.op = "saveJPGData") => err # CodeNotFound

\* JPG() decoded the AC value 1024 from an input file; its symbol, run 0 and
\* 11 bits, is not in the AC table of saveJPGData, which failed
C16_ElevenBitCoefficient ==
    /\ hist # <<>>
    /\ lastCall.op = "saveJPGData"
    /\ hist[1].op = "JPG"
    /\ Len(before.cover.MCUVector) = 1
    /\ At(channelOf(before.cover, 0, TRUE, 0).acCoeff, 1) = 1024
    /\ calculateCoeffLength(1024) = 11
    /\ symbolScan(acLuminance, 11).err = CodeNotFound
    /\ err = CodeNotFound

\* the last call was JPG() on an input file
Loaded ==
    /\ Len(hist) = 1
    /\ hist[1].op = "JPG"
    /\ hist[1].obj = "cover"

\* what readDHT keeps of a table: counts as offsets, symbols, derived codes
tableRead(t) ==
    [set |-> t.set, offsets |-> t.offsets, codes |-> t.codes,
     symbols |-> SubSeq(t.symbols, 1, t.offsets[17])]

\* the slot the header has for table t of the input file
slotOf(header, t) ==
    IF t.class = 0 THEN At(header.dcHuffmanTables, t.id)
    ELSE At(header.acHuffmanTables, t.id)

\* C17: a file whose Huffman tables, of distinct class and destination, are
\* concatenated in one DHT segment is read without error, and every table
\* is in its own slot with its counts, symbols and derived codes.
C17_JoinedDhtRead ==
    (Loaded /\ ~inputOfRun.dht
       /\ \A k \in 1..Len(inputOfRun.dqt) :
             inputOfRun.dqt[k] \in {<<0>>, <<1>>}) =>
        /\ err = ""
        /\ \A k \in 1..Len(InputTables(inputOfRun)) :
              tableRead(slotOf(jpg.cover.header, InputTables(inputOfRun)[k]))
                  = tableRead([InputTables(inputOfRun)[k].table
                                   EXCEPT !.set = TRUE])

\* JPG() on a file with one DHT segment of two tables (DC 0, AC 0) ended
\* with the error of a table assigned twice
C17_JoinedDhtRefused ==
    /\ Loaded
    /\ ~inputOfRun.dht
    /\ Len(InputTables(inputOfRun)) = 2
    /\ err = "Error - Huffman table was assigned multiple times."

\* the destination ids of all tables of the DQT segments; s is a sequence of
\* segments
RECURSIVE dqtIds(_, _)
dqtIds(s, k) ==
    IF k > Len(s) THEN <<>> ELSE s[k] \o dqtIds(s, k + 1)

\* C18: a file with a DQT segment of more than one table is read without
\* error and gives one quantization table per table header, in order, when
\* every destination id is at most 3, and it is refused with the error of
\* an invalid table id when one of the ids exceeds 3.
C18_JoinedDqtRead ==
    (Loaded /\ inputOfRun.dht
       /\ \E k \in 1..Len(inputOfRun.dqt) : Len(inputOfRun.dqt[k]) > 1) =>
        IF \E k \in 1..Len(dqtIds(inputOfRun.dqt, 1)) :
               dqtIds(inputOfRun.dqt, 1)[k] > 3
        THEN err = "Error - Invalid quantization table ID"
        ELSE /\ err = ""
             /\ [k \in 1..Len(jpg.cover.header.quantizationTables) |->
                    jpg.cover.header.quantizationTables[k].dest_id]
                  = dqtIds(inputOfRun.dqt, 1)

\* JPG() accepted a file whose DQT segment has the tables 0, 5, 2, 3 and
\* kept one quantization table
C18_BadIdAccepted ==
    /\ Loaded
    /\ inputOfRun.dqt = << <<0, 5, 2, 3>> >>
    /\ err = ""
    /\ Len(jpg.cover.header.quantizationTables) = 1

\* JPG() on a file whose DQT segment has the tables 0 and 1 ended with an
\* index error
C18_TwoTablesIndexError ==
    /\ Loaded
    /\ inputOfRun.dqt = << <<0, 1>> >>
    /\ err = "IndexError"

---------------------------------------------------------------------------
\* The capacity counter of a decoded image

\* the coefficients of the decoded image that satisfy a condition
counted(j, Cond(_)) ==
    Cardinality({p \in Positions(j) : Cond(coeffAt(j, p))})

\* C21, as claimed: after JPG() has decoded a file, the capacity counter is
\* the number of AC coefficients of the image whose absolute value is at
\* least 2.
C21_CountsMagnitudeTwoUp ==
    (Loaded /\ err = "")
        => jpg.cover.Bits = counted(jpg.cover, LAMBDA v : Abs(v) >= 2)

\* C21, amended: after JPG() has decoded a file, the capacity counter is the
\* number of AC coefficients of the image whose value is neither 0 nor 1; a
\* coefficient of -1 is counted.
C21_CountsAllButZeroAndOne ==
    (Loaded /\ err = "")
        => jpg.cover.Bits = counted(jpg.cover, LAMBDA v : v \notin {0, 1})

\* JPG() decoded a file that has coefficients of 0, of 1 and of -1, and
\* counted more coefficients than those of magnitude 2 and more
C21_MinusOneCounted ==
    /\ Loaded /\ err = ""
    /\ \A v \in {0, 1, -1} :
          \E p \in Positions(jpg.cover) : coeffAt(jpg.cover, p) = v
    /\ jpg.cover.Bits > counted(jpg.cover, LAMBDA v : Abs(v) >= 2)

---------------------------------------------------------------------------
\* BitReader.readNextBit on its own: a reader over a buffer of 0 to 2 bytes
\* and a sequence of reads of 1 to 9 bits

\* the number of reads of one run
MaxReads ==
    3

\* BitReader(data); unit keeps the reader, the reader before the last read,
\* the width and the result of the last read, and the number of reads
InitReader ==
    /\ NoProgram
    /\ \E len \in 0..2 : \E data \in [1..len -> {0, 165, 255}] :
          unit = [reader |-> BitReader(data), previous |-> BitReader(data),
                  n |-> 0, result |-> 0, err |-> "", reads |-> 0]

\* reader.readNextBit(n)
ReadNextBit ==
    /\ unit.err = ""
    /\ unit.reads < MaxReads
    /\ \E n \in {1, 3, 8, 9} :
          \E r \in {readNextBit(unit.reader, n)} :
             unit' = [reader |-> r.reader, previous |-> unit.reader,
                      n |-> n, result |-> r.result, err |-> r.err,
                      reads |-> unit.reads + 1]
    /\ UNCHANGED program

SpecReader ==
    InitReader /\ [][ReadNextBit]_vars

\* the bits a reader has not consumed
bitsLeft(r) ==
    IF r.currByte_ >= Len(r.data_) THEN 0
    ELSE 8 * (Len(r.data_) - r.currByte_) - r.currBit_

\* C22: the exhausted flag is set when the last bit has been consumed and
\* stays set; a read on an exhausted reader returns 0 and leaves the cursor
\* where it was; and a read that begins with fewer bits left than it asks
\* for, a read on an empty buffer included, returns without an error.
C22_ExhaustionIsStickyAndSilent ==
    unit.reads > 0 =>
        /\ unit.previous.read_ =>
              /\ unit.reader = unit.previous
              /\ unit.result = 0
        /\ unit.err = "" => (unit.reader.read_ <=> bitsLeft(unit.reader) = 0)
        /\ bitsLeft(unit.previous) < unit.n => unit.err = ""

\* the first read on a reader over an empty buffer ended with an index error
C22_EmptyBufferIndexError ==
    /\ unit.reads = 1
    /\ unit.previous.data_ = <<>>
    /\ unit.err = "IndexError"

\* the parts of C22 the code keeps: the flag is set exactly when no bit is
\* left and stays set, a read on an exhausted reader returns 0 and moves
\* nothing, and a read that begins with at least one bit left and fewer
\* than it asks for returns the bits that are left, without an error
C22_StickyOnNonEmptyBuffer ==
    (unit.reads > 0 /\ unit.previous.data_ # <<>>) =>
        /\ unit.err = ""
        /\ unit.reader.read_ <=> bitsLeft(unit.reader) = 0
        /\ unit.previous.read_ =>
              /\ unit.reader = unit.previous
              /\ unit.result = 0
        /\ bitsLeft(unit.previous) < unit.n =>
              /\ unit.reader.read_
              /\ unit.result < Pow2(bitsLeft(unit.previous))

---------------------------------------------------------------------------
\* removeNameFromFileData on its own: every buffer of at most MaxData bytes
\* drawn from '/', 'A' and '.'

MaxData ==
    4

\* the bytearray handed to removeNameFromFileData
InitName ==
    /\ NoProgram
    /\ \E len \in 0..MaxData : \E data \in [1..len -> {Slash, 65, 46}] :
          unit = [stage |-> "input", input |-> data, filedata |-> data,
                  file |-> <<>>, err |-> ""]

\* filename = removeNameFromFileData(filedata)
RemoveNameFromFileData ==
    /\ unit.stage = "input"
    /\ \E r \in {removeNameFromFileData(unit.filedata)} :
          unit' = [unit EXCEPT !.stage = "removed", !.file = r.file,
                               !.filedata = r.filedata, !.err = r.err]
    /\ UNCHANGED program

SpecName ==
    InitName /\ [][RemoveNameFromFileData]_vars

\* i is the place (from 1) of the last 0x2F of data
isLastSlash(data, i) ==
    /\ i \in 1..Len(data)
    /\ data[i] = Slash
    /\ \A k \in (i + 1)..Len(data) : data[k] # Slash

\* C23: removeNameFromFileData splits the buffer at its last 0x2F: the bytes
\* after it are the file name returned, the bytes before it (any 0x2F among
\* them included) are what is left in the buffer; a buffer without 0x2F is
\* refused with the error of the file name.
C23_SplitsAtLastSlash ==
    unit.stage = "removed" =>
        IF \E i \in 1..Len(unit.input) : unit.input[i] = Slash
        THEN /\ unit.err = ""
             /\ \A i \in 1..Len(unit.input) :
                   isLastSlash(unit.input, i) =>
                      /\ unit.file = SubSeq(unit.input, i + 1,
                                            Len(unit.input))
                      /\ unit.filedata = SubSeq(unit.input, 1, i - 1)
        ELSE unit.err = CouldNotRemove

\* a buffer whose only 0x2F is its first byte, followed by a name, was
\* refused
C23_SlashFirstRefused ==
    /\ unit.stage = "removed"
    /\ isLastSlash(unit.input, 1)
    /\ Len(unit.input) > 1
    /\ unit.err = CouldNotRemove

\* what the code keeps of C23: a buffer whose last 0x2F is not its first
\* byte is split there, and a buffer without 0x2F is refused
C23_SplitsAtLastSlashAfterContents ==
    (unit.stage = "removed" /\ ~isLastSlash(unit.input, 1)) =>
        IF \E i \in 1..Len(unit.input) : unit.input[i] = Slash
        THEN /\ unit.err = ""
             /\ \A i \in 1..Len(unit.input) :
                   isLastSlash(unit.input, i) =>
                      /\ unit.file = SubSeq(unit.input, i + 1,
                                            Len(unit.input))
                      /\ unit.filedata = SubSeq(unit.input, 1, i - 1)
        ELSE unit.err = CouldNotRemove

---------------------------------------------------------------------------
\* Component identifiers that count from zero

\* the identifiers the header of the cover object has for its components
identifiers(header) ==
    [k \in 1..header.startOfFrame.numOfComponents |->
        header.components[k].identifier]

\* C24: JPG() on a file whose SOF0 and SOS both number the components from
\* zero (0, 1, 2) ends well, readSOS having accepted the scan header, and
\* the components have the identifiers 1, 2, 3.
C24_ZeroBasedFileAccepted ==
    (Loaded /\ inputOfRun.base = <<0, 0>>) =>
        /\ err = ""
        /\ identifiers(jpg.cover.header) = [k \in 1..inputOfRun.n |-> k]

\* JPG() on a three-component file whose SOF0 and SOS both number the
\* components from zero ended with the error of a wrong component
\* identifier in SOS
C24_ZeroBasedScanRefused ==
    /\ Loaded
    /\ inputOfRun.base = <<0, 0>>
    /\ inputOfRun.n = 3
    /\ err = "Error - Wrong Component ID in Start of Scan."

\* what the code accepts: a file whose SOF0 numbers the components from
\* zero and whose SOS numbers them from one is read with the identifiers
\* 1, 2, 3
C24_RemappedFrameWithOneBasedScan ==
    (Loaded /\ inputOfRun.base = <<0, 1>>) =>
        /\ err = ""
        /\ identifiers(jpg.cover.header) = [k \in 1..inputOfRun.n |-> k]

---------------------------------------------------------------------------
\* What injectFile changes

\* the place of the cursor of j in the order of the walk (from 0)
cursorAt(j) ==
    ((j.currMCU * blocksPerMCU(j)
        + (IF j.ChannelType THEN j.ChannelNumber
           ELSE luminanceBlocks(j.header) + j.ChannelNumber)) * 63)
      + j.Coefficient

\* position p of Positions(j) is one the walk visits, and its place in the
\* order of the walk is in from..(to - 1)
walkedBetween(j, p, from, to) ==
    LET lum   == luminanceBlocks(j.header)
        block == IF p[2] <= 4 THEN p[2] - 1 ELSE lum + p[2] - 5
        place == ((p[1] - 1) * blocksPerMCU(j) + block) * 63 + p[3] - 1
    IN /\ p[2] <= lum \/ p[2] > 4
       /\ from <= place
       /\ place < to

\* the coefficients the last injectFile took for the bits of the frame:
\* those of value other than 0 and 1 between the cursor it started from
\* and the cursor it left
carriers ==
    {p \in Positions(before.cover) :
        /\ walkedBetween(before.cover, p, cursorAt(before.cover),
                         cursorAt(jpg.cover))
        /\ coeffAt(before.cover, p) \notin {0, 1}}

\* the DC coefficients of the six blocks of every MCU
dcCoeffs(j) ==
    [m \in 1..Len(j.MCUVector) |->
        [b \in 1..6 |->
            (IF b <= 4 THEN j.MCUVector[m].luminance[b]
             ELSE j.MCUVector[m].chrominance[b - 4]).dcCoeff]]

\* C25: injectFile changes AC coefficients that carried a bit of the frame
\* and nothing else: every DC coefficient, every AC coefficient that is not
\* a carrier (those after the last carrier among them) and the header are
\* as they were; an injectFile that ends well has one carrier per bit.
C25_OnlyCarriersChange ==
    Embedded =>
        /\ jpg.cover.header = before.cover.header
        /\ dcCoeffs(jpg.cover) = dcCoeffs(before.cover)
        /\ \A p \in Positions(before.cover) :
              coeffAt(jpg.cover, p) # coeffAt(before.cover, p)
                 => p \in carriers
        /\ err = "" => Cardinality(carriers) = 8 * Len(frame)

\* injectFile ended well, changed a coefficient, and left after its last
\* carrier a coefficient of value other than 0 and 1
C25_UsableCoefficientLeftAfterFrame ==
    /\ Embedded /\ err = ""
    /\ jpg.cover # before.cover
    /\ \E p \in Positions(jpg.cover) :
          /\ walkedBetween(jpg.cover, p, cursorAt(jpg.cover),
                           positions(jpg.cover))
          /\ coeffAt(jpg.cover, p) \notin {0, 1}

---------------------------------------------------------------------------
\* The table selectors of the written scan header

\* where the SOS segment of the written file begins
sosStart ==
    Len(writtenHeader(inputOfRun, jpg.cover.header))
        - Len(SosSegment(inputOfRun))

\* C26: in the written file the SOS segment selects, for every component,
\* the Huffman slots writeBlock encoded its blocks with: DC 0 / AC 0 for the
\* first component, DC 1 / AC 1 for the second and the third, whatever the
\* selectors of the input file were.
C26_SelectorsNameTheSlotsUsed ==
    stegoFile # <<>> =>
        HasAt(stegoFile, sosStart,
              SosSegment([inputOfRun EXCEPT !.sel = <<0, 17, 17>>]))

\* a file was written from a three-component input whose SOS selects the
\* slots DC 0 / AC 0 for every component, and its SOS segment has the
\* selectors of the input
C26_InputSelectorsWritten ==
    /\ Saved
    /\ inputOfRun.sel = <<0, 0, 0>>
    /\ HasAt(stegoFile, sosStart, SosSegment(inputOfRun))

\* what the code does: the SOS segment of the written file has the
\* selectors the SOS segment of the input had
C26_SelectorsCopiedFromInput ==
    stegoFile # <<>> => HasAt(stegoFile, sosStart, SosSegment(inputOfRun))

---------------------------------------------------------------------------
\* The carriers after embedding

\* the coefficients a walk of the extractor takes on the object as
\* injectFile left it, between the two cursors of injectFile
taken ==
    {p \in Positions(jpg.cover) :
        /\ walkedBetween(jpg.cover, p, cursorAt(before.cover),
                         cursorAt(jpg.cover))
        /\ coeffAt(jpg.cover, p) \notin {0, 1}}

\* C27: after injectFile every carrier has a value other than 0 and 1, so a
\* walk of the extractor over the same stretch takes the coefficients the
\* embedder took, and no other.
C27_CarriersStayUsable ==
    Embedded =>
        /\ \A p \in carriers : coeffAt(jpg.cover, p) \notin {0, 1}
        /\ taken = carriers

\* injectFile ended well and stored 0 in a carrier whose value was 256
C27_CarrierBecameZero ==
    /\ Embedded /\ err = ""
    /\ \E p \in carriers :
          /\ coeffAt(before.cover, p) = 256
          /\ coeffAt(jpg.cover, p) = 0

\* what the code keeps of C27: a carrier stays usable unless the low eight
\* bits of its value (two's complement) were 0 or 1
C27_CarriersOfOtherLowBytesStayUsable ==
    Embedded =>
        \A p \in carriers :
           coeffAt(before.cover, p) % 256 \notin {0, 1}
              => coeffAt(jpg.cover, p) \notin {0, 1}

---------------------------------------------------------------------------
\* The capacity counter and the walk

\* the number of coefficients findAvailableCoeff returns, called again and
\* again from the cursor of j, before it raises the out-of-range error
yielded(j) ==
    For(LAMBDA s, i :
           Bind(findAvailableCoeff(s.jpg), LAMBDA r :
              [err |-> r.err, jpg |-> r.jpg,
               n |-> IF r.err = "" THEN s.n + 1 ELSE s.n]),
        [err |-> "", jpg |-> j, n |-> 0], 1, positions(j) + 1).n

\* the first call of the run was JPG(), the second an injectFile of a frame
\* of as many bits as the capacity counter
ExactFit ==
    /\ Len(hist) = 2
    /\ hist[1].op = "JPG"
    /\ Embedded
    /\ 8 * Len(frame) = before.cover.Bits

\* C28: the capacity counter of a decoded image is the number of
\* coefficients findAvailableCoeff returns before it runs off the end, and
\* an injectFile of a frame of exactly that many bits ends without an error,
\* having taken the last of them.
C28_CapacityIsWalkLength ==
    /\ (Loaded /\ err = "") => jpg.cover.Bits = yielded(jpg.cover)
    /\ ExactFit =>
          /\ err = ""
          /\ Cardinality(carriers) = before.cover.Bits
          /\ yielded(jpg.cover) = 0

\* a frame of exactly the capacity was embedded in an image of three
\* components with 2x2 luminance sampling
C28_ExactFitEmbedded ==
    /\ ExactFit
    /\ err = ""
    /\ inputOfRun.n = 3 /\ inputOfRun.hs = 2 /\ inputOfRun.vs = 2

---------------------------------------------------------------------------
\* injectFile after other calls on the same object

\* C29: whatever calls were made on the object before, an injectFile whose
\* frame passes the capacity check ends without an error and has embedded
\* every bit of the frame.
C29_CheckedFrameIsEmbedded ==
    (Embedded /\ 8 * Len(frame) <= before.cover.Bits) =>
        /\ err = ""
        /\ Cardinality(carriers) = 8 * Len(frame)

\* the second of two injectFile calls passed the capacity check and ended
\* with the out-of-range error, some carriers written
C29_SecondEmbedRanOffTheEnd ==
    /\ Len(hist) = 2
    /\ hist[1].op = "injectFile"
    /\ Embedded
    /\ 8 * Len(frame) <= before.cover.Bits
    /\ err = OutOfRange
    /\ jpg.cover.MCUVector # before.cover.MCUVector

\* what the code keeps of C29: an injectFile on an object whose cursor is
\* where JPG() left it, with a frame that passes the check, embeds every bit
C29_FirstEmbedComplete ==
    (Embedded /\ Len(hist) = 1 /\ 8 * Len(frame) <= before.cover.Bits) =>
        /\ err = ""
        /\ Cardinality(carriers) = 8 * Len(frame)

---------------------------------------------------------------------------
\* The round trip of an empty file

\* the run embeds a file of no bytes in a grey cover of small coefficients
\* (the first of them 2 or 3), where the round trip of a file that is not
\* empty is exact
EmptyFileRun ==
    /\ InRoundTrip /\ FirstFrameFits
    /\ SecretFiles[hist[1].arg].data = <<>>
    /\ jpg.cover.header.startOfFrame.numOfComponents = 1
    /\ coeffAt(jpg.cover, <<1, 1, 1>>) \in {2, 3}

\* the run embeds a file that is not empty in such a cover
OtherFileRun ==
    /\ InRoundTrip /\ FirstFrameFits
    /\ SecretFiles[hist[1].arg].data # <<>>
    /\ jpg.cover.header.startOfFrame.numOfComponents = 1
    /\ coeffAt(jpg.cover, <<1, 1, 1>>) \in {2, 3}

\* C30: a secret file of no bytes makes the round trip: its frame is the
\* four bytes of the length, 0x2F and the basename, and the retrieving run
\* ends without an error and writes a file of that name with no bytes.
C30_EmptyFileRoundTrip ==
    EmptyFileRun =>
        /\ frame = <<0, 0, 0, 1 + Len(basename(SecretFiles[hist[1].arg].path)),
                     Slash>>
                      \o basename(SecretFiles[hist[1].arg].path)
        /\ err = ""
        /\ Len(hist) = 4 =>
              /\ outFile.written
              /\ outFile.data = <<>>
              /\ outFile.name = basename(SecretFiles[hist[1].arg].path)

\* the round trip of an empty file ran up to retrieveHiddenFile, which
\* ended with the error of the file name and wrote no file
C30_EmptyFileNameNotRemoved ==
    /\ EmptyFileRun
    /\ Len(hist) = 4
    /\ err = CouldNotRemove
    /\ outFile = NoFile

\* what the code keeps of C30: the frame of an empty file is the length,
\* 0x2F and the basename, and injectFile, saveJPGData and JPG() end well
\* (or JPG() refuses an unsupported segment); the round trip of a file
\* that is not empty in the same covers gives the file back
C30_EmptyFileEmbedded ==
    /\ (EmptyFileRun /\ Len(hist) < 4) =>
          /\ frame = <<0, 0, 0,
                       1 + Len(basename(SecretFiles[hist[1].arg].path)),
                       Slash>>
                        \o basename(SecretFiles[hist[1].arg].path)
          /\ err \in {"", UnsupportedMarker}
    /\ (OtherFileRun /\ Len(hist) = 4) =>
          /\ err = ""
          /\ outFile.data = SecretFiles[hist[1].arg].data
          /\ outFile.name = basename(SecretFiles[hist[1].arg].path)

====
